---- MODULE Spec2Model ----
(***************************************************************************)
(* Model of the Image Studio job queue (app/services/image_studio_queue.py) *)
(* and of the runner it serves (app/services/image_studio_worker.py,        *)
(* app/services/image_studio_engine.py).                                    *)
(*                                                                          *)
(* Conventions.                                                             *)
(*   - Python None is the string "None" for ids and lanes, 0 for timestamps *)
(*     and tokens, and <<>> for a queue sentinel and for an unset result,   *)
(*     error or log path.                                                   *)
(*   - time.time() is a logical clock kept per job record: a stamp written  *)
(*     to a record is greater than every stamp the record already holds.    *)
(*   - threading.Event objects are numbered by the enqueue call that made   *)
(*     them; `evset` holds the numbers of the events that are set.          *)
(*   - a runner is numbered by the enqueue call that received it; its       *)
(*     return value is <<"res", n>> and its exception text <<"err", n>>;    *)
(*     the text of CancelledError("Job cancelled") is <<"Job cancelled">>.  *)
(*   - the caller-supplied labels mode, sku, stem, prompt and options are   *)
(*     stored verbatim and never read by the queue; they are left out.      *)
(***************************************************************************)
EXTENDS Integers, Sequences, FiniteSets, TLC

\* ---------------------------------------------------------------- bounds
MaxEnqueue == 2
MaxStop == 1
\* run_image_studio_job: jobs submitted, SKUs in a batch, source images of a SKU
MaxStudioJobs == 1
MaxSkus == 2
MaxSources == 2
\* log capture: jobs submitted, texts one runner writes
MaxLogJobs == 1
MaxWrites == 2
\* log buffer: direct appends to one job's buffer
MaxAppends == 3
\* locking: threads that call the queue or write to a routed stream, lock
\* objects made for one job id
MaxThreads == 3
MaxLocksPerJob == 2
\* AsyncRateLimiter: coroutines entering the block, largest max_concurrent
MaxCoros == 4
MaxConcurrent == 2
\* main image selection: items of a group
MaxItems == 3

\* ------------------------------------------------------------- constants
\* job ids are opaque strings; callers name new ones in this order
JobIds == <<"a", "b">>
\* the constructor calls considered: JobQueue(lanes=["image"],
\* lane_workers={"image": 2}) as the HTTP layer builds it, and a queue of two
\* lanes with no configured worker count
Configs ==
    { [lanes |-> <<"image">>, lane_workers |-> [l \in {"image"} |-> 2]],
      [lanes |-> <<"image", "bulk">>, lane_workers |-> << >>] }
\* lane arguments a caller may pass to enqueue
LaneArgs == {"image", "bulk", "vip", ""}

None == "None"
Unset == << >>
Sentinel == <<>>
Terminal == {"success", "failed", "cancelled"}
Statuses == {"queued", "running"} \cup Terminal

VARIABLES
    lanes,          \* self._lanes
    lane_workers,   \* self._lane_workers
    jobs,           \* self._jobs: job id -> job record
    order,          \* self._order
    cancel_events,  \* self._cancel_events: job id -> event number
    evset,          \* the events that are set
    log_paths,      \* self._log_paths
    queues,         \* self._queues: lane -> FIFO of items
    stop,           \* self._stop
    wk,             \* the worker threads: position and locals of _worker
    sub,            \* per enqueue call: what became of its runner
    ret,            \* the value returned by the last public call
    nenq,           \* number of enqueue calls so far
    nstop,          \* number of stop calls so far
    payload,        \* per runner: the payload given to run_image_studio_job
    run,            \* per runner: position and locals of run_image_studio_job
    tasks,          \* per runner: the futures submitted to its stage pools
    seen,           \* per runner: the checks that found the event set
    logs,           \* self._logs: job id -> the buffered texts, oldest first
    log_counts,     \* self._log_counts: job id -> characters buffered
    log_bytes,      \* self._log_bytes: job id -> bytes written to the log file
    files,          \* the log directory: job id -> bytes of <job_id>.log
    written,        \* per runner: the texts written while its context was active
    rd,             \* the get_log_chunk call in progress
    max_concurrent, \* AsyncRateLimiter.max_concurrent, 0 before construction
    semaphore,      \* AsyncRateLimiter._semaphore: its value and its waiters
    coro,           \* per coroutine: where it stands around "async with"
    sources,        \* the source list of the group being processed
    head,           \* the item stage 1 selected
    secondary,      \* the items stage 2 made tasks for
    prev_head,      \* the item stage 1 selected for the list as given before
    log_write_locks, \* self._log_write_locks: job id -> lock object
    lock_owner,     \* per lock object: the thread that holds it, 0 if free
    thr             \* per thread: where it stands in a queue call or a write

\* the state of the runners that are run_image_studio_job calls
svars == <<payload, run, tasks, seen>>

\* the state of the log capture
lvars == <<logs, log_counts, log_bytes, files, written, rd>>

\* the state of the job queue
qvars == <<lanes, lane_workers, jobs, order, cancel_events, evset, log_paths, queues, stop, wk, sub, ret, nenq, nstop>>

\* the state of an AsyncRateLimiter and of the coroutines using it
avars == <<max_concurrent, semaphore, coro>>

\* the state of the main image selection
gvars == <<sources, head, secondary, prev_head>>

\* the locks of the queue and the threads that take them
kvars == <<log_write_locks, lock_owner, thr>>

\* what the job queue and its runners never touch
uvars == <<avars, gvars, kvars>>

vars == <<lanes, lane_workers, jobs, order, cancel_events, evset, log_paths, queues, stop, wk, sub, ret, nenq, nstop, payload, run, tasks, seen, logs, log_counts, log_bytes, files, written, rd, max_concurrent, semaphore, coro, sources, head, secondary, prev_head, log_write_locks, lock_owner, thr>>

\* ------------------------------------------------------------ helpers

LaneSet == {lanes[i] : i \in 1..Len(lanes)}

\* mutant of WorkerCount: only the lane "image" gets worker threads
WorkerCountImage(lane) ==
    IF lane # "image" THEN 0
    ELSE IF lane \in DOMAIN lane_workers THEN lane_workers[lane] ELSE 1

\* start()/stop(): n = int(self._lane_workers.get(lane, 1) or 1); n < 1 -> 1
WorkerCount(lane) ==
    LET n == IF lane \in DOMAIN lane_workers THEN lane_workers[lane] ELSE 1
    IN IF n < 1 THEN 1 ELSE n

\* the threads job-worker-<lane>-<i> that start() creates
WorkerIds == {w \in LaneSet \X (0..1) : w[2] < WorkerCount(w[1])}

IdSet == {JobIds[i] : i \in 1..Len(JobIds)}

\* the ids not yet in the store, and the first of them
Unused == {i \in 1..Len(JobIds) : JobIds[i] \notin DOMAIN jobs}
FirstUnused == JobIds[CHOOSE i \in Unused : \A k \in Unused : i <= k]

\* mutant of TargetLane: an unknown lane falls back to the last lane
TargetLaneLast(lane) ==
    LET l == IF lane = "" THEN "default" ELSE lane
    IN IF l \in LaneSet THEN l ELSE lanes[Len(lanes)]

\* lane = str(lane or "").strip() or "default"; unknown -> self._lanes[0]
TargetLane(lane) ==
    LET l == IF lane = "" THEN "default" ELSE lane
    IN IF l \in LaneSet THEN l ELSE lanes[1]

\* job_id = job_id or uuid.uuid4().hex : an id nobody has used
Uuid == FirstUnused

\* the dict built by enqueue; obj identifies the dict object itself
NewJob(job_id, lane, n, t) ==
    [ id |-> job_id, lane |-> lane, status |-> "queued",
      cancel_requested |-> FALSE, created_at |-> t, started_at |-> 0,
      finished_at |-> 0, result |-> Unset, error |-> Unset,
      log_path |-> <<>>, log_bytes |-> 0, obj |-> n ]

\* (self._log_dir / f"{job_id}.log").resolve()
LogPath(job_id) == <<job_id, ".log">>

IdleLocals == [pc |-> "dead", job_id |-> None, runner |-> 0, ev |-> 0, log_file |-> FALSE]

\* what is remembered of one enqueue call: the id and lane it used, how often
\* its queue item was dequeued and its runner called, and whether cancel
\* found its record queued
NoSub == [job_id |-> None, lane |-> None, taken |-> 0, invoked |-> 0, cancelled_queued |-> FALSE]

\* mutant of Snapshot: get returns the stored dict itself
SnapshotAlias(job) == [val |-> job, at |-> job, alias |-> TRUE]

\* get(): dict(job) is a copy, so the caller's record is detached from the store
Snapshot(job) == [val |-> job, at |-> job, alias |-> FALSE]

\* a store write job[...] = ... mutates the dict in place: a caller still
\* holding that very dict (not a copy) sees the write
Holder(r, job) ==
    IF r.op = "get" /\ r.found /\ r.alias /\ r.val.obj = job.obj /\ r.val.id = job.id
    THEN [r EXCEPT !.val = job] ELSE r

Put(job) == [k \in DOMAIN jobs \cup {job.id} |-> IF k = job.id THEN job ELSE jobs[k]]

\* ------------------------------------------- run_image_studio_job: data

SingleModes == {"image_regenerate", "image_optimize_current", "image_custom_generate"}
BatchModes == {"batch_main_generate", "batch_secondary_generate", "batch_series_generate"}

\* ai_defaults.get("image_workers", 30), and the cap on a stage pool
DefaultWorkers == 30
WorkerCap == 60

\* options["sku_images_map"]: per SKU the number of its source images, one of
\* them the main image; SKUs are interchangeable, so counts are listed in
\* non-decreasing order
SkuMaps ==
    {m \in UNION {[1..k -> 0..MaxSources] : k \in 0..MaxSkus} :
        \A i \in 1..Len(m) - 1 : m[i] <= m[i + 1]}

\* options["max_workers"] values considered: absent, one, and more than the
\* cap
WorkerOpts == {0, 1, 100}

NoPayload ==
    [mode |-> None, source_url |-> FALSE, skus |-> << >>, max_workers |-> 0,
     sources |-> 0, do_main |-> TRUE, do_secondary |-> TRUE]

\* request.model_dump(): the fields run_image_studio_job reads. source_url
\* says whether options["source_url"] is non-empty, sources is the length of
\* options["source_images"]
Payloads ==
    {[NoPayload EXCEPT !.mode = m, !.source_url = u] :
        m \in SingleModes \cup {"bogus"}, u \in BOOLEAN}
    \cup {[NoPayload EXCEPT !.mode = m, !.skus = k, !.max_workers = x] :
        m \in BatchModes, k \in SkuMaps, x \in WorkerOpts}
    \cup {[NoPayload EXCEPT !.mode = "folder_generate", !.sources = c,
                            !.do_main = a, !.do_secondary = b] :
        c \in 0..MaxSources, a \in BOOLEAN, b \in BOOLEAN}

\* the frame of run_image_studio_job before the worker calls it
\* the thread-local context of a thread no job context is installed in
NoContext == [job_id |-> None, cancel_event |-> 0, log_file |-> FALSE]

\* mutant of InstallContext: a pool thread starts the task with its own,
\* empty context
InstallNothing(ctx) == NoContext

\* run_in_job_context: the thread-local context while fn runs
InstallContext(ctx) ==
    [job_id |-> ctx.job_id, cancel_event |-> ctx.cancel_event, log_file |-> ctx.log_file]

RunIdle ==
    [pc |-> "idle", ev |-> 0, stage |-> 0, todo |-> << >>, pool |-> 0,
     pending |-> {}, ok1 |-> {}, items |-> 0, left |-> 0, frame |-> "pre",
     kind |-> None, val |-> Unset, ctx |-> NoContext]

\* the positions of a call of _process_single_image
FramePcs == {"pre", "download", "engine", "request"}

\* a future of a stage pool: the stage, the SKU it works for, where its
\* function stands, the "ok" of the outcome it returned, and tls, the
\* thread-local context of the pool thread while it is in run_in_job_context
NewTask(stage, sku) ==
    [stage |-> stage, sku |-> sku, pc |-> "pending", ok |-> FALSE, tls |-> NoContext]

InitStudio ==
    /\ payload = [n \in 1..MaxStudioJobs |-> NoPayload]
    /\ run = [n \in 1..MaxStudioJobs |-> RunIdle]
    /\ tasks = [n \in 1..MaxStudioJobs |-> << >>]
    /\ seen = [n \in 1..MaxStudioJobs |-> {}]

\* no job yet, an empty log directory, no get_log_chunk call in progress
NoRead == [pc |-> "idle"]

InitLog ==
    /\ logs = << >>
    /\ log_counts = << >>
    /\ log_bytes = << >>
    /\ files = << >>
    /\ written = [n \in 1..MaxEnqueue |-> << >>]
    /\ rd = NoRead

\* no limiter constructed and no coroutine started yet
InitLimiter ==
    /\ max_concurrent = 0
    /\ semaphore = [value |-> 0, waiters |-> << >>]
    /\ coro = [c \in 1..MaxCoros |-> "new"]

\* no group given yet
InitSelect ==
    /\ sources = << >>
    /\ head = [id |-> 0, name |-> << >>, url |-> << >>, stem |-> << >>]
    /\ secondary = << >>
    /\ prev_head = [id |-> 0, name |-> << >>, url |-> << >>, stem |-> << >>]

\* the threads that call the queue or write to sys.stdout / sys.stderr
Threads == 1..MaxThreads

\* lock objects: self._lock, self._stdout_lock / self._stderr_lock, and the
\* threading.Lock() objects enqueue makes for a job id
StoreLock == <<"store", "", 0>>
StreamLock(stream) == <<"stream", stream, 0>>
JobLock(j, g) == <<"job", j, g>>
NoLock == <<"none", "", 0>>
Streams == {"stdout", "stderr"}
Locks ==
    {StoreLock} \cup {StreamLock(x) : x \in Streams}
        \cup {JobLock(j, g) : j \in IdSet, g \in 1..MaxLocksPerJob}

\* a thread that is in no queue call and no write
IdleThread == [pc |-> "idle", op |-> None, id |-> "", stream |-> "", job_lock |-> NoLock, outer |-> FALSE]

\* every lock free, no job lock made, every thread outside the queue
InitLocks ==
    /\ log_write_locks = << >>
    /\ lock_owner = [l \in Locks |-> 0]
    /\ thr = [t \in Threads |-> IdleThread]

TypeOK ==
    /\ \A j \in DOMAIN jobs : jobs[j].status \in Statuses
    /\ DOMAIN jobs \subseteq IdSet
    /\ nenq \in 0..MaxEnqueue
    /\ stop \in BOOLEAN

Init ==
    /\ \E c \in Configs : lanes = c.lanes /\ lane_workers = c.lane_workers
    /\ jobs = << >>
    /\ order = << >>
    /\ cancel_events = << >>
    /\ evset = {}
    /\ log_paths = << >>
    /\ queues = [l \in LaneSet |-> << >>]
    /\ stop = FALSE
    /\ wk = [w \in WorkerIds |-> IdleLocals]
    /\ sub = [n \in 1..MaxEnqueue |-> NoSub]
    /\ ret = [op |-> None]
    /\ nenq = 0
    /\ nstop = 0
    /\ InitStudio
    /\ InitLog
    /\ InitLimiter
    /\ InitSelect
    /\ InitLocks

\* ------------------------------------------------------ record updates

Max3(a, b, c) == IF a >= b /\ a >= c THEN a ELSE IF b >= c THEN b ELSE c

\* time.time() at a write to this record: later than all its stamps
Time(job) == Max3(job.created_at, job.started_at, job.finished_at) + 1

\* _worker, first locked block: the transition to running
BeginRecord(job, t) ==
    [job EXCEPT !.status = "running", !.started_at = t, !.error = Unset, !.result = Unset]

\* _worker, the three locked blocks after runner(): kind is how the runner
\* ended ("return", "cancelled" for CancelledError, "raise" for any other
\* exception), val its value or str(e), lp is self._log_paths.get(job_id),
\* lb is self._log_bytes.get(job_id, 0)
FinishRecord(job, kind, val, t, lp, lb) ==
    IF kind = "return"
    THEN [job EXCEPT !.status = "success", !.result = val, !.finished_at = t,
                     !.log_path = lp, !.log_bytes = lb]
    ELSE IF kind = "cancelled"
    THEN [job EXCEPT !.status = "cancelled", !.error = val, !.finished_at = t,
                     !.log_path = lp, !.log_bytes = lb]
    ELSE [job EXCEPT !.status = "failed", !.error = val, !.finished_at = t,
                     !.log_path = lp, !.log_bytes = lb]

\* mutant of CancelRecord: cancel marks a running job cancelled at once
CancelRecordForce(job, t) ==
    [job EXCEPT !.cancel_requested = TRUE, !.status = "cancelled",
                !.finished_at = t, !.error = Unset]

\* cancel, the part after the terminal test
CancelRecord(job, t) ==
    IF job.status = "queued"
    THEN [job EXCEPT !.cancel_requested = TRUE, !.status = "cancelled",
                     !.finished_at = t, !.error = Unset]
    ELSE [job EXCEPT !.cancel_requested = TRUE]

\* mutant of CancelIsNoop: only a cancelled job is left alone
CancelIsNoopNarrow(status) == status = "cancelled"

\* cancel: the statuses on which it returns at once
CancelIsNoop(status) == status \in {"success", "failed", "cancelled"}

\* _worker: the status on which a dequeued item is dropped without running
SkipsItem(job) == job.status = "cancelled"

\* check_cancelled / _check_cancel: ev is not None and ev.is_set()
IsSet(ev) == ev # 0 /\ ev \in evset

\* mutant of AnyAlive: start() never finds a live thread
AnyAliveNever == FALSE

\* start(): any(t and t.is_alive() for t in self._threads.values())
AnyAlive == \E w \in WorkerIds : wk[w].pc # "dead"

\* mutant of Rest: the item is read but stays at the head of the queue
RestPeek(q) == q

\* queue.Queue.get() removes the item it returns
Rest(q) == Tail(q)

\* mutant of Sentinels: stop() puts nothing on the lane queues
SentinelsNone(n) == << >>

\* stop(): the n None items put on a lane queue
RECURSIVE Sentinels(_)
Sentinels(n) == IF n = 0 THEN << >> ELSE <<Sentinel>> \o Sentinels(n - 1)

\* ------------------------------------------------------ public methods

\* start(): no-op while a registered thread is alive
Start ==
    /\ IF AnyAlive
       THEN UNCHANGED <<stop, wk>>
       ELSE /\ stop' = FALSE
            /\ wk' = [w \in WorkerIds |-> [IdleLocals EXCEPT !.pc = "loop"]]
    /\ UNCHANGED <<lvars, lanes, lane_workers, jobs, order, cancel_events, evset, log_paths, queues, sub, ret, nenq, nstop>>

\* stop(): set the flag, one sentinel per worker on each lane queue
Stop ==
    /\ nstop < MaxStop
    /\ nstop' = nstop + 1
    /\ stop' = TRUE
    /\ queues' = [l \in LaneSet |-> queues[l] \o Sentinels(WorkerCount(l))]
    /\ UNCHANGED <<lvars, lanes, lane_workers, jobs, order, cancel_events, evset, log_paths, wk, sub, ret, nenq>>

\* mutant of QueuePut: the item goes to the head of the queue
QueuePutFront(q, item) == <<item>> \o q

\* self._queues[lane].put(item): queue.Queue is first in, first out
QueuePut(q, item) == Append(q, item)

\* enqueue(..., runner, lane=lane_arg, job_id=id_arg)
Enqueue(id_arg, lane_arg) ==
    /\ nenq < MaxEnqueue
    /\ id_arg = None => Unused # {}
    /\ LET n == nenq + 1
           lane == TargetLane(lane_arg)
           job_id == IF id_arg = None THEN Uuid ELSE id_arg
           job == NewJob(job_id, lane, n, 1)
       IN /\ nenq' = n
          /\ jobs' = Put(job)
          /\ order' = Append(order, job_id)
          /\ cancel_events' = [k \in DOMAIN jobs \cup {job_id} |->
                                 IF k = job_id THEN n ELSE cancel_events[k]]
          /\ log_paths' = [k \in DOMAIN jobs \cup {job_id} |->
                                 IF k = job_id THEN << >> ELSE log_paths[k]]
          /\ queues' = [queues EXCEPT ![lane] = QueuePut(@, <<job_id, n>>)]
          /\ sub' = [sub EXCEPT ![n] = [NoSub EXCEPT !.job_id = job_id, !.lane = lane]]
          /\ ret' = [op |-> "enqueue", id |-> job_id]
          /\ logs' = [k \in DOMAIN jobs \cup {job_id} |->
                                 IF k = job_id THEN << >> ELSE logs[k]]
          /\ log_counts' = [k \in DOMAIN jobs \cup {job_id} |->
                                 IF k = job_id THEN 0 ELSE log_counts[k]]
          /\ log_bytes' = [k \in DOMAIN jobs \cup {job_id} |->
                                 IF k = job_id THEN 0 ELSE log_bytes[k]]
    /\ UNCHANGED <<files, written, rd, lanes, lane_workers, evset, stop, wk, nstop>>

\* get(job_id)
Get(j) ==
    /\ ret' = IF j \in DOMAIN jobs
              THEN [op |-> "get", id |-> j, found |-> TRUE] @@ Snapshot(jobs[j])
              ELSE [op |-> "get", id |-> j, found |-> FALSE]
    /\ UNCHANGED <<lvars, lanes, lane_workers, jobs, order, cancel_events, evset, log_paths, queues, stop, wk, sub, nenq, nstop>>

\* mutant of CancelNotFound: an unknown id is reported as handled
CancelNotFoundHandled == <<TRUE, "ok">>

\* cancel: the reply for an id that is not in the store
CancelNotFound == <<FALSE, "not found">>

\* cancel(job_id)
Cancel(j) ==
    IF j \notin DOMAIN jobs
    THEN /\ ret' = [op |-> "cancel", id |-> j, val |-> CancelNotFound]
         /\ UNCHANGED <<lvars, lanes, lane_workers, jobs, order, cancel_events, evset, log_paths, queues, stop, wk, sub, nenq, nstop>>
    ELSE IF CancelIsNoop(jobs[j].status)
    THEN /\ ret' = [op |-> "cancel", id |-> j, val |-> <<TRUE, jobs[j].status>>]
         /\ UNCHANGED <<lvars, lanes, lane_workers, jobs, order, cancel_events, evset, log_paths, queues, stop, wk, sub, nenq, nstop>>
    ELSE /\ jobs' = Put(CancelRecord(jobs[j], Time(jobs[j])))
         /\ evset' = IF cancel_events[j] # 0 THEN evset \cup {cancel_events[j]} ELSE evset
         /\ sub' = IF jobs[j].status = "queued"
                   THEN [sub EXCEPT ![jobs[j].obj].cancelled_queued = TRUE]
                   ELSE sub
         /\ ret' = [op |-> "cancel", id |-> j, val |-> <<TRUE, "ok">>, was |-> jobs[j].status]
         /\ UNCHANGED <<lvars, lanes, lane_workers, order, cancel_events, log_paths, queues, stop, wk, nenq, nstop>>

\* -------------------------------------------------------- worker loop

\* while not self._stop.is_set():
WorkerLoop(w) ==
    /\ wk[w].pc = "loop"
    /\ wk' = [wk EXCEPT ![w].pc = IF stop THEN "dead" ELSE "wait"]
    /\ UNCHANGED <<lvars, lanes, lane_workers, jobs, order, cancel_events, evset, log_paths, queues, stop, sub, ret, nenq, nstop>>

\* item = self._queues[lane].get(); a sentinel sends the worker back to the test
WorkerDequeue(w) ==
    /\ wk[w].pc = "wait"
    /\ queues[w[1]] # << >>
    /\ LET item == Head(queues[w[1]])
       IN /\ queues' = [queues EXCEPT ![w[1]] = Rest(@)]
          /\ IF item = Sentinel
             THEN /\ wk' = [wk EXCEPT ![w].pc = "loop"]
                  /\ UNCHANGED sub
             ELSE /\ wk' = [wk EXCEPT ![w].pc = "item", ![w].job_id = item[1], ![w].runner = item[2]]
                  /\ sub' = [sub EXCEPT ![item[2]].taken = @ + 1]
    /\ UNCHANGED <<lvars, lanes, lane_workers, jobs, order, cancel_events, evset, log_paths, stop, ret, nenq, nstop>>

\* the first locked block: skip a cancelled job, else mark it running
WorkerBegin(w) ==
    /\ wk[w].pc = "item"
    /\ LET j == wk[w].job_id
       IN IF j \notin DOMAIN jobs \/ SkipsItem(jobs[j])
          THEN /\ wk' = [wk EXCEPT ![w] = [IdleLocals EXCEPT !.pc = "loop"]]
               /\ UNCHANGED <<jobs, ret>>
          ELSE /\ jobs' = Put(BeginRecord(jobs[j], Time(jobs[j])))
               /\ ret' = Holder(ret, BeginRecord(jobs[j], Time(jobs[j])))
                    /\ wk' = [wk EXCEPT ![w].pc = "begin"]
    /\ UNCHANGED <<lvars, lanes, lane_workers, order, cancel_events, evset, log_paths, queues, stop, sub, nenq, nstop>>

\* open(log_path, "ab"): the file is created empty unless it is there already
OpenAppend(fs, j) ==
    [k \in DOMAIN fs \cup {j} |-> IF k \in DOMAIN fs THEN fs[k] ELSE << >>]

\* mutant of AfterLogSetup: a log file that cannot be opened ends the item
AfterLogSetupAbort(opened) == IF opened THEN "exec" ELSE "loop"

\* where the worker goes after the log setup: mkdir or open raising is
\* caught ("except Exception: log_file = None") and runner() is called
AfterLogSetup(opened) == "exec"

\* install the thread-local context, try to open the log file, call runner()
WorkerInstall(w, opened) ==
    /\ wk[w].pc = "begin"
    /\ LET j == wk[w].job_id
           job == [jobs[j] EXCEPT !.log_path = LogPath(j), !.log_bytes = log_bytes[j]]
       IN /\ wk' = [wk EXCEPT ![w].pc = AfterLogSetup(opened), ![w].ev = cancel_events[j], ![w].log_file = opened]
          /\ IF opened
             THEN /\ log_paths' = [log_paths EXCEPT ![j] = LogPath(j)]
                  /\ files' = OpenAppend(files, j)
                  /\ jobs' = Put(job)
                  /\ ret' = Holder(ret, job)
             ELSE UNCHANGED <<log_paths, files, jobs, ret>>
          /\ sub' = [sub EXCEPT ![wk[w].runner].invoked = @ + 1]
    /\ UNCHANGED <<logs, log_counts, log_bytes, written, rd, lanes, lane_workers, order, cancel_events, evset, queues, stop, nenq, nstop>>

\* the locked block that records how runner() ended, then the finally clause
Finish(w, kind, val) ==
    LET j == wk[w].job_id
        job == FinishRecord(jobs[j], kind, val, Time(jobs[j]), log_paths[j], log_bytes[j])
    IN /\ jobs' = Put(job)
       /\ ret' = Holder(ret, job)
       /\ wk' = [wk EXCEPT ![w] = [IdleLocals EXCEPT !.pc = "loop"]]
       /\ UNCHANGED <<lvars, lanes, lane_workers, order, cancel_events, evset, log_paths, queues, stop, sub, nenq, nstop>>

\* the runner returns a value
RunnerReturn(w) ==
    /\ wk[w].pc = "exec"
    /\ Finish(w, "return", <<"res", wk[w].runner>>)

\* the runner raises an exception other than CancelledError
RunnerRaise(w) ==
    /\ wk[w].pc = "exec"
    /\ Finish(w, "raise", <<"err", wk[w].runner>>)

\* the runner calls check_cancelled() while the thread's event is set
RunnerCheckCancelled(w) ==
    /\ wk[w].pc = "exec"
    /\ IsSet(wk[w].ev)
    /\ Finish(w, "cancelled", <<"Job cancelled">>)

\* job_id arguments: none, an id already in the store, or the next new one
IdArgs == {None} \cup DOMAIN jobs \cup (IF Unused = {} THEN {} ELSE {FirstUnused})

Next ==
    \/ Start /\ UNCHANGED <<svars, uvars>>
    \/ \E id_arg \in IdArgs, lane_arg \in LaneArgs : Enqueue(id_arg, lane_arg) /\ UNCHANGED <<svars, uvars>>
    \/ \E j \in IdSet : Get(j) /\ UNCHANGED <<svars, uvars>>
    \/ \E j \in IdSet : Cancel(j) /\ UNCHANGED <<svars, uvars>>
    \/ \E w \in WorkerIds : WorkerLoop(w) /\ UNCHANGED <<svars, uvars>>
    \/ \E w \in WorkerIds : WorkerDequeue(w) /\ UNCHANGED <<svars, uvars>>
    \/ \E w \in WorkerIds : WorkerBegin(w) /\ UNCHANGED <<svars, uvars>>
    \/ \E w \in WorkerIds, opened \in BOOLEAN : WorkerInstall(w, opened) /\ UNCHANGED <<svars, uvars>>
    \/ \E w \in WorkerIds : RunnerReturn(w) /\ UNCHANGED <<svars, uvars>>
    \/ \E w \in WorkerIds : RunnerRaise(w) /\ UNCHANGED <<svars, uvars>>
    \/ \E w \in WorkerIds : RunnerCheckCancelled(w) /\ UNCHANGED <<svars, uvars>>

Spec == Init /\ [][Next]_vars

\* =====================================================================
\* run_image_studio_job (app/services/image_studio_worker.py) as the runner
\* =====================================================================

MinLeft(a, b) == a

Min(a, b) == IF a <= b THEN a ELSE b

\* max_workers_main / max_workers_secondary: int(options value or 0), the
\* configured default when <= 0, then kept within 1..60
MaxWorkers(opt) ==
    LET a == IF opt <= 0 THEN DefaultWorkers ELSE opt
        b == IF a < 1 THEN 1 ELSE a
    IN IF b > WorkerCap THEN WorkerCap ELSE b

\* the two modes of a batch that run each stage
DoMain(p) == p.mode \in {"batch_main_generate", "batch_series_generate"}
DoSecondary(p) == p.mode \in {"batch_secondary_generate", "batch_series_generate"}

\* _process_images_for_sku: the calls of _process_single_image it makes, the
\* head when do_main and every other source when do_secondary
FolderCalls(p) ==
    IF p.sources = 0 THEN 0
    ELSE (IF p.do_main THEN 1 ELSE 0) + (IF p.do_secondary THEN p.sources - 1 ELSE 0)

\* the runner has ended: kind and val are what the worker will record
Ended(r, kind, val) == [r EXCEPT !.pc = "ended", !.kind = kind, !.val = val]

\* the dict run_image_studio_job returns, by the number of its items
Items(c) == <<"items", c>>

CancelledText == <<"Job cancelled">>

\* process_image_with_nano_banana, "except Exception as e: return False,
\* str(e)": what the call returns when exc was raised inside it.
\* CancelledError is an Exception, so _check_cancel's signal ends here too
EngineCatch(exc) == [ok |-> FALSE, msg |-> exc]

\* one step of _process_single_image in a thread whose event is set iff
\* isset; ok says whether the external call of the step (download, model
\* request and upload) went well. out is "none" while the call goes on,
\* else how it ended; saw names the check that found the event set
ProcessStep(pc, isset, ok) ==
    CASE pc = "pre" ->
            IF isset
            THEN [pc |-> pc, out |-> "CancelledError", msg |-> CancelledText, saw |-> {"check_cancelled"}]
            ELSE [pc |-> "download", out |-> "none", msg |-> Unset, saw |-> {}]
      [] pc = "download" ->
            IF ~ok
            THEN [pc |-> pc, out |-> "Exception", msg |-> <<"download">>, saw |-> {}]
            ELSE IF isset
            THEN [pc |-> pc, out |-> "CancelledError", msg |-> CancelledText, saw |-> {"check_cancelled"}]
            ELSE [pc |-> "engine", out |-> "none", msg |-> Unset, saw |-> {}]
      [] pc = "engine" ->
            IF isset
            THEN [pc |-> pc, out |-> "Exception", msg |-> EngineCatch(CancelledText).msg, saw |-> {"_check_cancel"}]
            ELSE [pc |-> "request", out |-> "none", msg |-> Unset, saw |-> {}]
      [] OTHER ->
            IF isset
            THEN [pc |-> pc, out |-> "Exception", msg |-> EngineCatch(CancelledText).msg, saw |-> {"_check_cancel"}]
            ELSE IF ok
            THEN [pc |-> pc, out |-> "return", msg |-> Unset, saw |-> {}]
            ELSE [pc |-> pc, out |-> "Exception", msg |-> <<"processing">>, saw |-> {}]

\* mutant of SecondaryTasks: the "ok" of the stage-1 outcome is not looked at
RECURSIVE SecondaryTasksAll(_, _, _)
SecondaryTasksAll(i, skus, ok1) ==
    IF i > Len(skus) THEN << >>
    ELSE (IF skus[i] > 0 THEN [k \in 1..(skus[i] - 1) |-> i] ELSE << >>)
         \o SecondaryTasksAll(i + 1, skus, ok1)

\* secondary_tasks: for the SKUs i..Len(skus) whose stage-1 outcome is ok and
\* that have sources, one entry per source other than the head
RECURSIVE SecondaryTasks(_, _, _)
SecondaryTasks(i, skus, ok1) ==
    IF i > Len(skus) THEN << >>
    ELSE (IF i \in ok1 /\ skus[i] > 0
          THEN [k \in 1..(skus[i] - 1) |-> i] ELSE << >>)
         \o SecondaryTasks(i + 1, skus, ok1)

\* _process_batch_concurrent after stage 1 (ok1: the SKUs with an ok outcome,
\* c: the ok results so far): build stage 2 or return
AfterMain(r, p, ok1, c) ==
    LET todo == IF DoSecondary(p) THEN SecondaryTasks(1, p.skus, ok1) ELSE << >>
    IN IF todo = << >>
       THEN Ended(r, "return", Items(c))
       ELSE [r EXCEPT !.pc = "submit", !.stage = 2, !.todo = todo, !.ok1 = ok1,
                      !.items = c, !.pending = {},
                      !.pool = Min(MaxWorkers(p.max_workers), Len(todo))]

\* mutant of NoSourceUrl: the options are not validated
NoSourceUrlNever(p) == FALSE

\* "if not source_url" of the single-image modes
NoSourceUrl(p) == ~p.source_url

\* run_image_studio_job after its first check: dispatch on the mode
Route(r, p) ==
    IF p.mode \in BatchModes
    THEN IF Len(p.skus) = 0 THEN Ended(r, "return", Items(0))
         ELSE IF DoMain(p)
         THEN [r EXCEPT !.pc = "submit", !.stage = 1,
                        !.todo = [i \in 1..Len(p.skus) |-> i],
                        !.pool = Min(MaxWorkers(p.max_workers), Len(p.skus))]
         ELSE AfterMain(r, p, 1..Len(p.skus), 0)
    ELSE IF p.mode = "folder_generate"
    THEN IF FolderCalls(p) = 0 THEN Ended(r, "return", Items(0))
         ELSE [r EXCEPT !.pc = "calls", !.left = FolderCalls(p), !.frame = "pre"]
    ELSE IF p.mode \in SingleModes
    THEN IF NoSourceUrl(p) THEN Ended(r, "raise", <<"source_url required">>)
         ELSE [r EXCEPT !.pc = "calls", !.left = 1, !.frame = "pre"]
    ELSE Ended(r, "raise", <<"Unknown mode">>)

\* the futures of runner n whose function is being executed by a pool thread
Running(n) == {t \in 1..Len(tasks[n]) : tasks[n][t].pc \in FramePcs}

\* mutant of Unsettled: the executor's exit waits for nothing
UnsettledNone(n) == {}

\* the futures of runner n that are neither finished nor cancelled
Unsettled(n) == {t \in 1..Len(tasks[n]) : tasks[n][t].pc \notin {"done", "cancelled"}}

\* the checks fns, as found set in the job's own thread or in a pool thread
Saw(thread, fns) == {<<thread, f>> : f \in fns}

\* ------------------------------------------------------- studio actions

\* POST /image-studio/jobs: enqueue(runner=lambda: run_image_studio_job(p),
\* lane="image", job_id=request.job_id)
SubmitJob(id_arg, p) ==
    /\ nenq < MaxStudioJobs
    /\ Enqueue(id_arg, "image")
    /\ payload' = [payload EXCEPT ![nenq + 1] = p]
    /\ run' = [run EXCEPT ![nenq + 1] = [RunIdle EXCEPT !.pc = "entry"]]
    /\ UNCHANGED <<tasks, seen>>

\* capture_job_context() in the thread of worker w
CaptureJobContext(w) ==
    [job_id |-> wk[w].job_id, cancel_event |-> wk[w].ev, log_file |-> wk[w].log_file]

\* run_image_studio_job: check_cancelled() on entry, then the dispatch; the
\* context a batch hands to its pool tasks is the one of this thread
JobEntry(w) ==
    LET n == wk[w].runner
    IN /\ wk[w].pc = "exec"
       /\ run[n].pc = "entry"
       /\ IF IsSet(wk[w].ev)
          THEN /\ run' = [run EXCEPT ![n] = Ended(@, "cancelled", CancelledText)]
               /\ seen' = [seen EXCEPT ![n] = @ \cup Saw("job", {"check_cancelled"})]
          ELSE /\ run' = [run EXCEPT ![n] =
                      Route([@ EXCEPT !.ev = wk[w].ev, !.ctx = CaptureJobContext(w)], payload[n])]
               /\ UNCHANGED seen
       /\ UNCHANGED <<lvars, lanes, lane_workers, jobs, order, cancel_events, evset, log_paths, queues, stop, wk, sub, ret, nenq, nstop, payload, tasks>>

\* a step of _process_single_image called in the job's own thread (the
\* single-image modes and folder_generate): nothing catches what it raises
JobCall(w, ok) ==
    LET n == wk[w].runner
        r == run[n]
        s == ProcessStep(r.frame, IsSet(wk[w].ev), ok)
    IN /\ wk[w].pc = "exec"
       /\ r.pc = "calls"
       /\ run' = [run EXCEPT ![n] =
              IF s.out = "none" THEN [r EXCEPT !.frame = s.pc]
              ELSE IF s.out = "CancelledError" THEN Ended(r, "cancelled", s.msg)
              ELSE IF s.out = "Exception" THEN Ended(r, "raise", s.msg)
              ELSE IF r.left = 1 THEN Ended(r, "return", Items(r.items + 1))
              ELSE [r EXCEPT !.left = @ - 1, !.items = @ + 1, !.frame = "pre"]]
       /\ seen' = [seen EXCEPT ![n] = @ \cup Saw("job", s.saw)]
       /\ UNCHANGED <<lvars, lanes, lane_workers, jobs, order, cancel_events, evset, log_paths, queues, stop, wk, sub, ret, nenq, nstop, payload, tasks>>

\* the submit loop of a stage: check_cancelled(), then executor.submit. The
\* check raises inside the with block and outside the try, so no future is
\* cancelled and the executor's exit waits for all of them
JobSubmit(w) ==
    LET n == wk[w].runner
        r == run[n]
        t == Len(tasks[n]) + 1
    IN /\ wk[w].pc = "exec"
       /\ r.pc = "submit"
       /\ IF IsSet(r.ev)
          THEN /\ run' = [run EXCEPT ![n] = [r EXCEPT !.pc = "shutdown"]]
               /\ seen' = [seen EXCEPT ![n] = @ \cup Saw("job", {"check_cancelled"})]
               /\ UNCHANGED tasks
          ELSE /\ tasks' = [tasks EXCEPT ![n] = Append(@, NewTask(r.stage, Head(r.todo)))]
               /\ run' = [run EXCEPT ![n] =
                      [r EXCEPT !.todo = Tail(@), !.pending = @ \cup {t},
                                !.pc = IF Len(r.todo) = 1 THEN "drain" ELSE "submit"]]
               /\ UNCHANGED seen
       /\ UNCHANGED <<lvars, lanes, lane_workers, jobs, order, cancel_events, evset, log_paths, queues, stop, wk, sub, ret, nenq, nstop, payload>>

\* mutant of JobDrain: the drain loop waits without looking at the token
JobDrainBlind(w) ==
    LET n == wk[w].runner
        r == run[n]
    IN /\ wk[w].pc = "exec"
       /\ r.pc = "drain"
       /\ r.pending # {}
       /\ run' = [run EXCEPT ![n] = [r EXCEPT !.pc = "wait"]]
       /\ UNCHANGED <<lvars, lanes, lane_workers, jobs, order, cancel_events, evset, log_paths, queues, stop, wk, sub, ret, nenq, nstop, payload, tasks, seen>>

\* the drain loop of a stage, "while pending: check_cancelled()". A raising
\* check runs the finally clause, which cancels the futures no pool thread
\* has taken
JobDrain(w) ==
    LET n == wk[w].runner
        r == run[n]
    IN /\ wk[w].pc = "exec"
       /\ r.pc = "drain"
       /\ r.pending # {}
       /\ IF IsSet(r.ev)
          THEN /\ run' = [run EXCEPT ![n] = [r EXCEPT !.pc = "shutdown"]]
               /\ tasks' = [tasks EXCEPT ![n] =
                      [t \in DOMAIN @ |->
                          IF t \in r.pending /\ @[t].pc = "pending"
                          THEN [@[t] EXCEPT !.pc = "cancelled"] ELSE @[t]]]
               /\ seen' = [seen EXCEPT ![n] = @ \cup Saw("job", {"check_cancelled"})]
          ELSE /\ run' = [run EXCEPT ![n] = [r EXCEPT !.pc = "wait"]]
               /\ UNCHANGED <<tasks, seen>>
       /\ UNCHANGED <<lvars, lanes, lane_workers, jobs, order, cancel_events, evset, log_paths, queues, stop, wk, sub, ret, nenq, nstop, payload>>

\* mutant of DoneOf: wait() reports every pending future as done
DoneOfAll(n, pending) == pending

\* wait(pending, ...): the futures of the set that are done
DoneOf(n, pending) == {t \in pending : tasks[n][t].pc = "done"}

\* mutant of OkOf: a failed outcome counts like a successful one
OkOfAll(n, done) == done

\* "if r.get("ok")": the futures of the set whose outcome is ok
OkOf(n, done) == {t \in done : tasks[n][t].ok}

\* wait(pending, timeout=0.25, return_when=FIRST_COMPLETED) returns the
\* futures that are done, none of them on a timeout; their outcomes are
\* counted (an exception held by a future counts as a failed outcome)
JobWait(w) ==
    LET n == wk[w].runner
        r == run[n]
        done == DoneOf(n, r.pending)
        oks == OkOf(n, done)
    IN /\ wk[w].pc = "exec"
       /\ r.pc = "wait"
       /\ run' = [run EXCEPT ![n] =
              [r EXCEPT !.pc = "drain",
                        !.pending = @ \ done,
                        !.items = @ + Cardinality(oks),
                        !.ok1 = IF r.stage = 1
                                THEN @ \cup {tasks[n][t].sku : t \in oks}
                                ELSE @]]
       /\ UNCHANGED <<lvars, lanes, lane_workers, jobs, order, cancel_events, evset, log_paths, queues, stop, wk, sub, ret, nenq, nstop, payload, tasks, seen>>

\* "while pending" is false: the with block ends (every future is done), and
\* the stage's ok results join all_results; stage 2 or the return follows
JobStageDone(w) ==
    LET n == wk[w].runner
        r == run[n]
    IN /\ wk[w].pc = "exec"
       /\ r.pc = "drain"
       /\ r.pending = {}
       /\ run' = [run EXCEPT ![n] =
              IF r.stage = 1 THEN AfterMain(r, payload[n], r.ok1, r.items)
              ELSE Ended(r, "return", Items(r.items))]
       /\ UNCHANGED <<lvars, lanes, lane_workers, jobs, order, cancel_events, evset, log_paths, queues, stop, wk, sub, ret, nenq, nstop, payload, tasks, seen>>

\* ThreadPoolExecutor.__exit__ with CancelledError in flight: shutdown(wait=
\* True) returns once every future that was not cancelled has run; then the
\* exception leaves run_image_studio_job
JobShutdown(w) ==
    LET n == wk[w].runner
        r == run[n]
    IN /\ wk[w].pc = "exec"
       /\ r.pc = "shutdown"
       /\ Unsettled(n) = {}
       /\ run' = [run EXCEPT ![n] = Ended(r, "cancelled", CancelledText)]
       /\ UNCHANGED <<lvars, lanes, lane_workers, jobs, order, cancel_events, evset, log_paths, queues, stop, wk, sub, ret, nenq, nstop, payload, tasks, seen>>

\* the runner is over: the worker records the outcome
JobEnd(w) ==
    LET n == wk[w].runner
    IN /\ wk[w].pc = "exec"
       /\ run[n].pc = "ended"
       /\ Finish(w, run[n].kind, run[n].val)
       /\ run' = [run EXCEPT ![n].pc = "over"]
       /\ UNCHANGED <<payload, tasks, seen>>

\* a pool thread takes the oldest waiting future: run_in_job_context installs the captured
\* context, _process_sku_main / _process_one_secondary starts with
\* check_cancelled() (outside its try: the future holds the exception, which
\* the drain loop turns into a failed outcome), then "if not sources"
TaskStart(n, t) ==
    LET r == run[n]
        f == tasks[n][t]
        empty == f.stage = 1 /\ payload[n].skus[f.sku] = 0
        tls == InstallContext(r.ctx)
    IN /\ f.pc = "pending"
       /\ \A u \in 1..(t - 1) : tasks[n][u].pc # "pending"
       /\ Cardinality(Running(n)) < r.pool
       /\ tasks' = [tasks EXCEPT ![n][t] =
              IF IsSet(tls.cancel_event) \/ empty
              THEN [f EXCEPT !.pc = "done"]
              ELSE [f EXCEPT !.pc = "pre", !.tls = tls]]
       /\ seen' = [seen EXCEPT ![n] =
              @ \cup Saw("task", IF IsSet(tls.cancel_event) THEN {"check_cancelled"} ELSE {})]
       /\ UNCHANGED <<lvars, lanes, lane_workers, jobs, order, cancel_events, evset, log_paths, queues, stop, wk, sub, ret, nenq, nstop, payload, run>>

\* a step of _process_single_image inside a stage task: "except Exception"
\* of the task turns whatever it raises into an outcome with ok False
TaskStep(n, t, ok) ==
    LET f == tasks[n][t]
        s == ProcessStep(f.pc, IsSet(f.tls.cancel_event), ok)
    IN /\ f.pc \in FramePcs
       /\ tasks' = [tasks EXCEPT ![n][t] =
              IF s.out = "none" THEN [f EXCEPT !.pc = s.pc]
              ELSE [f EXCEPT !.pc = "done", !.ok = (s.out = "return"), !.tls = NoContext]]
       /\ seen' = [seen EXCEPT ![n] = @ \cup Saw("task", s.saw)]
       /\ UNCHANGED <<lvars, lanes, lane_workers, jobs, order, cancel_events, evset, log_paths, queues, stop, wk, sub, ret, nenq, nstop, payload, run>>

\* the job ids a client may send: one in the store or the next new one
ClientIds == DOMAIN jobs \cup (IF Unused = {} THEN {} ELSE {FirstUnused})

NextStudio ==
    \/ Start /\ UNCHANGED <<svars, uvars>>
    \/ \E id_arg \in ClientIds, p \in Payloads : SubmitJob(id_arg, p) /\ UNCHANGED uvars
    \/ \E j \in IdSet : Cancel(j) /\ UNCHANGED <<svars, uvars>>
    \/ \E w \in WorkerIds : WorkerLoop(w) /\ UNCHANGED <<svars, uvars>>
    \/ \E w \in WorkerIds : WorkerDequeue(w) /\ UNCHANGED <<svars, uvars>>
    \/ \E w \in WorkerIds : WorkerBegin(w) /\ UNCHANGED <<svars, uvars>>
    \/ \E w \in WorkerIds, opened \in BOOLEAN : WorkerInstall(w, opened) /\ UNCHANGED <<svars, uvars>>
    \/ \E w \in WorkerIds : JobEntry(w) /\ UNCHANGED uvars
    \/ \E w \in WorkerIds, ok \in BOOLEAN : JobCall(w, ok) /\ UNCHANGED uvars
    \/ \E w \in WorkerIds : JobSubmit(w) /\ UNCHANGED uvars
    \/ \E w \in WorkerIds : JobDrain(w) /\ UNCHANGED uvars
    \/ \E w \in WorkerIds : JobWait(w) /\ UNCHANGED uvars
    \/ \E w \in WorkerIds : JobStageDone(w) /\ UNCHANGED uvars
    \/ \E w \in WorkerIds : JobShutdown(w) /\ UNCHANGED uvars
    \/ \E w \in WorkerIds : JobEnd(w) /\ UNCHANGED uvars
    \/ \E n \in 1..MaxStudioJobs : \E t \in 1..Len(tasks[n]) : TaskStart(n, t) /\ UNCHANGED uvars
    \/ \E n \in 1..MaxStudioJobs : \E t \in 1..Len(tasks[n]), ok \in BOOLEAN : TaskStep(n, t, ok) /\ UNCHANGED uvars

\* the HTTP layer's queue: one lane "image" with two workers
InitHttp == Init /\ lanes = <<"image">>

SpecStudio == InitHttp /\ [][NextStudio]_vars

\* =====================================================================
\* Log capture: RouterStream.write, _append_log, get_log, get_log_chunk
\* =====================================================================

\* self._log_limit
LogLimit == 200000

\* the texts a runner prints: one ASCII character, one two-byte character
Texts == {<<"a">>, <<"é">>}

\* an optional integer argument: None or the integer k
NoArg == << >>
Arg(k) == <<k>>
FromArgs == {NoArg, Arg(0), Arg(1), Arg(9)}
TailArgs == {NoArg, Arg(1)}

\* what the log file of a job is to a reader: "ok" it can be read, "gone" it
\* cannot (deleted, or stat/open/read raise), "flaky" get_log_chunk's own
\* attempt fails and the one get_log makes next succeeds
FileStates == {"ok", "flaky", "gone"}

\* s.encode("utf-8", errors="replace")
RECURSIVE Encode(_)
Encode(text) ==
    IF text = << >> THEN << >>
    ELSE (IF Head(text) = "é" THEN <<"C3", "A9">> ELSE <<"61">>) \o Encode(Tail(text))

\* b.decode("utf-8", errors="replace"): a byte that does not begin a complete
\* character becomes U+FFFD, written "?"
RECURSIVE Decode(_)
Decode(b) ==
    IF b = << >> THEN << >>
    ELSE IF Head(b) = "61" THEN <<"a">> \o Decode(Tail(b))
    ELSE IF Head(b) = "C3" /\ Len(b) >= 2 /\ b[2] = "A9"
    THEN <<"é">> \o Decode(Tail(Tail(b)))
    ELSE <<"?">> \o Decode(Tail(b))

\* "".join(chunks)
RECURSIVE Join(_)
Join(chunks) == IF chunks = << >> THEN << >> ELSE Head(chunks) \o Join(Tail(chunks))

\* seq[start:] and seq[-k:] for 0 <= start and 0 < k
From(seq, start) == SubSeq(seq, start + 1, Len(seq))
Last(seq, k) == IF Len(seq) > k THEN SubSeq(seq, Len(seq) - k + 1, Len(seq)) ELSE seq

\* mutant of Trim: every append empties the buffer
TrimAll(b) == [dq |-> << >>, count |-> 0]

\* _append_log, the while loop: drop the oldest chunks while over the limit
RECURSIVE Trim(_)
Trim(b) ==
    IF b.count > LogLimit /\ b.dq # << >>
    THEN Trim([dq |-> Tail(b.dq), count |-> b.count - Len(Head(b.dq))])
    ELSE b

\* _append_log(job_id, text) on the deque dq with recorded count
AppendLog(dq, count, text) ==
    Trim([dq |-> Append(dq, text), count |-> count + Len(text)])

\* RouterStream.write: "if job_id and log_file is not None" guards the file
\* write and the buffer append alike
RoutesToJob(log_file) == log_file

\* RouterStream.write(s) in worker thread w while a job's context is
\* installed: with a log file the bytes go to the file, _log_bytes grows and
\* the text joins the buffer; without one the text only reaches the original
\* stream (which is not part of the state)
Write(w, s) ==
    LET j == wk[w].job_id
        n == wk[w].runner
        b == Encode(s)
        buf == AppendLog(logs[j], log_counts[j], s)
    IN /\ wk[w].pc = "exec"
       /\ s # << >>
       /\ Len(written[n]) < MaxWrites
       /\ written' = [written EXCEPT ![n] = Append(@, s)]
       /\ IF RoutesToJob(wk[w].log_file)
          THEN /\ files' = [files EXCEPT ![j] = @ \o b]
               /\ log_bytes' = [log_bytes EXCEPT ![j] = @ + Len(b)]
               /\ logs' = [logs EXCEPT ![j] = buf.dq]
               /\ log_counts' = [log_counts EXCEPT ![j] = buf.count]
          ELSE UNCHANGED <<files, log_bytes, logs, log_counts>>
       /\ UNCHANGED <<rd, lanes, lane_workers, jobs, order, cancel_events, evset, log_paths, queues, stop, wk, sub, ret, nenq, nstop>>

\* get_log, after the lookup: the file's text when there is a path and the
\* file can be read (readable), else the buffer
LogText(j, readable) ==
    IF log_paths[j] # << >> /\ readable /\ j \in DOMAIN files
    THEN Decode(files[j])
    ELSE Join(logs[j])

\* get_log(job_id)
GetLog(j, readable) ==
    /\ ret' = IF j \in DOMAIN logs
              THEN [op |-> "get_log", id |-> j, found |-> TRUE, val |-> LogText(j, readable)]
              ELSE [op |-> "get_log", id |-> j, found |-> FALSE]
    /\ UNCHANGED <<lvars, lanes, lane_workers, jobs, order, cancel_events, evset, log_paths, queues, stop, wk, sub, nenq, nstop>>

\* get_log_chunk, file branch: where the slice starts in a file of that size
ChunkStart(f, t, size) ==
    IF f # NoArg /\ f[1] >= 0 THEN (IF f[1] <= size THEN f[1] ELSE size)
    ELSE IF t # NoArg /\ t[1] > 0 THEN (IF size - t[1] >= 0 THEN size - t[1] ELSE 0)
    ELSE 0

\* get_log_chunk, buffer branch: the dict built from txt = get_log(job_id)
BufferChunk(txt, t) ==
    LET cut == IF t # NoArg /\ t[1] > 0 /\ Len(txt) > t[1] THEN Last(txt, t[1]) ELSE txt
    IN [log |-> cut, from |-> 0, to |-> Len(cut), total |-> Len(cut), log_path |-> << >>]

\* get_log_chunk(job_id, from_bytes=f, tail_bytes=t) up to the point where
\* the file is open: the lookup under the lock, then stat() and the start
\* offset; with no path or no readable file, the buffer branch
ChunkOpen(j, f, t, fs) ==
    /\ rd.pc = "idle"
    /\ IF j \notin DOMAIN logs
       THEN /\ ret' = [op |-> "get_log_chunk", id |-> j, found |-> FALSE]
            /\ UNCHANGED rd
       ELSE IF log_paths[j] # << >> /\ fs = "ok" /\ j \in DOMAIN files
       THEN /\ rd' = [pc |-> "read", id |-> j,
                      start |-> ChunkStart(f, t, Len(files[j])),
                      total |-> Len(files[j])]
            /\ UNCHANGED ret
       ELSE /\ ret' = [op |-> "get_log_chunk", id |-> j, found |-> TRUE,
                       val |-> BufferChunk(LogText(j, fs = "flaky"), t)]
            /\ UNCHANGED rd
    /\ UNCHANGED <<logs, log_counts, log_bytes, files, written, lanes, lane_workers, jobs, order, cancel_events, evset, log_paths, queues, stop, wk, sub, nenq, nstop>>

\* get_log_chunk, file branch: seek, read to the end of the file, return
ChunkRead ==
    /\ rd.pc = "read"
    /\ LET b == From(files[rd.id], rd.start)
       IN ret' = [op |-> "get_log_chunk", id |-> rd.id, found |-> TRUE,
                  val |-> [log |-> Decode(b), from |-> rd.start,
                           to |-> rd.start + Len(b), total |-> rd.total,
                           log_path |-> LogPath(rd.id)]]
    /\ rd' = NoRead
    /\ UNCHANGED <<logs, log_counts, log_bytes, files, written, lanes, lane_workers, jobs, order, cancel_events, evset, log_paths, queues, stop, wk, sub, nenq, nstop>>

\* enqueue as the log scenarios use it
EnqueueLog(id_arg, lane_arg) ==
    /\ nenq < MaxLogJobs
    /\ Enqueue(id_arg, lane_arg)

NextLog ==
    \/ Start /\ UNCHANGED <<svars, uvars>>
    \/ \E id_arg \in IdArgs, lane_arg \in LaneArgs : EnqueueLog(id_arg, lane_arg) /\ UNCHANGED <<svars, uvars>>
    \/ \E j \in IdSet : Get(j) /\ UNCHANGED <<svars, uvars>>
    \/ \E j \in IdSet : Cancel(j) /\ UNCHANGED <<svars, uvars>>
    \/ \E w \in WorkerIds : WorkerLoop(w) /\ UNCHANGED <<svars, uvars>>
    \/ \E w \in WorkerIds : WorkerDequeue(w) /\ UNCHANGED <<svars, uvars>>
    \/ \E w \in WorkerIds : WorkerBegin(w) /\ UNCHANGED <<svars, uvars>>
    \/ \E w \in WorkerIds, opened \in BOOLEAN : WorkerInstall(w, opened) /\ UNCHANGED <<svars, uvars>>
    \/ \E w \in WorkerIds : RunnerReturn(w) /\ UNCHANGED <<svars, uvars>>
    \/ \E w \in WorkerIds : RunnerRaise(w) /\ UNCHANGED <<svars, uvars>>
    \/ \E w \in WorkerIds : RunnerCheckCancelled(w) /\ UNCHANGED <<svars, uvars>>
    \/ \E w \in WorkerIds, s \in Texts : Write(w, s) /\ UNCHANGED <<svars, uvars>>
    \/ \E j \in IdSet, fs \in FileStates : GetLog(j, fs # "gone") /\ UNCHANGED <<svars, uvars>>
    \/ \E j \in IdSet, f \in FromArgs, t \in TailArgs, fs \in FileStates :
          ChunkOpen(j, f, t, fs) /\ UNCHANGED <<svars, uvars>>
    \/ ChunkRead /\ UNCHANGED <<svars, uvars>>

SpecLog == Init /\ [][NextLog]_vars

\* a text of k characters c
Chunk(c, k) == [i \in 1..k |-> c]

\* texts appended to a buffer: one character, half the limit, one character
\* less than the limit, the limit, one character more than the limit
BufferTexts ==
    { Chunk("a", 1), Chunk("b", LogLimit \div 2), Chunk("e", LogLimit - 1),
      Chunk("c", LogLimit), Chunk("d", LogLimit + 1) }

\* the latest submission made under job id j
LatestSub(j) ==
    CHOOSE n \in 1..nenq :
        /\ sub[n].job_id = j
        /\ \A m \in 1..nenq : sub[m].job_id = j => m <= n

\* what is remembered of a text appended: its first character and its length
Stamp(text) == <<text[1], Len(text)>>

\* _append_log(job_id, text): an empty text or an unknown job returns at once
AppendLogCall(j, text) ==
    /\ text # << >>
    /\ j \in DOMAIN logs
    /\ Len(written[LatestSub(j)]) < MaxAppends
    /\ LET buf == AppendLog(logs[j], log_counts[j], text)
       IN /\ logs' = [logs EXCEPT ![j] = buf.dq]
          /\ log_counts' = [log_counts EXCEPT ![j] = buf.count]
    /\ written' = [written EXCEPT ![LatestSub(j)] = Append(@, Stamp(text))]
    /\ UNCHANGED <<log_bytes, files, rd, qvars>>

\* the queue as the HTTP layer builds it
InitBuffer == Init /\ lanes = <<"image">>

NextBuffer ==
    \/ \E id_arg \in IdArgs : EnqueueLog(id_arg, "image") /\ UNCHANGED <<svars, uvars>>
    \/ \E j \in IdSet, text \in BufferTexts : AppendLogCall(j, text) /\ UNCHANGED <<svars, uvars>>

SpecBuffer == InitBuffer /\ [][NextBuffer]_vars

\* =====================================================================
\* locking: self._lock, the stream locks and the per-job write locks
\* =====================================================================

\* the calls that take self._lock: the public calls and the locked blocks of
\* _worker
Calls ==
    {[op |-> "enqueue", id |-> j] : j \in IdSet}
        \cup {[op |-> o, id |-> ""] :
                o \in {"get", "get_log", "get_log_chunk", "cancel", "snapshot", "_worker"}}

\* mutant of WritesInside: a locked block prints
WritesInsideAlways(op) == TRUE

\* does the block a call runs under self._lock write to sys.stdout or
\* sys.stderr: none of the blocks does
WritesInside(op) == FALSE

\* the lock a thread is about to acquire
Wants(t) ==
    CASE thr[t].pc \in {"call", "bytes", "append"} -> StoreLock
      [] thr[t].pc = "stream" -> StreamLock(thr[t].stream)
      [] thr[t].pc = "job" -> thr[t].job_lock
      [] OTHER -> NoLock

Free(l) == lock_owner[l] = 0

\* lock.acquire() by thread t: blocks until the lock is free
Acquire(t, next) ==
    /\ Free(Wants(t))
    /\ lock_owner' = [lock_owner EXCEPT ![Wants(t)] = t]
    /\ thr' = [thr EXCEPT ![t].pc = next]
    /\ UNCHANGED log_write_locks

\* the lock objects made for job id j so far, and the threads inside an
\* enqueue that will make another
LocksMade(j) == IF j \in DOMAIN log_write_locks THEN log_write_locks[j][3] ELSE 0
Enqueuing(j) == {t \in Threads : thr[t].op = "enqueue" /\ thr[t].id = j}

\* a thread calls the queue
CallBegin(t, c) ==
    /\ thr[t].pc = "idle"
    /\ c.op = "enqueue" => LocksMade(c.id) + Cardinality(Enqueuing(c.id)) < MaxLocksPerJob
    /\ thr' = [thr EXCEPT ![t] = [IdleThread EXCEPT !.pc = "call", !.op = c.op, !.id = c.id]]
    /\ UNCHANGED <<log_write_locks, lock_owner>>

\* "with self._lock:" entered
CallEnter(t) ==
    /\ thr[t].pc = "call"
    /\ Acquire(t, "locked")

\* the next lock object enqueue makes for job id j
FreshLock(j) == JobLock(j, LocksMade(j) + 1)

\* the locked block runs and "with self._lock:" is left; enqueue stores a
\* new write lock for the job id
CallLeave(t) ==
    /\ thr[t].pc = "locked"
    /\ IF WritesInside(thr[t].op)
       THEN /\ thr' = [thr EXCEPT ![t].pc = "stream", ![t].stream = "stdout", ![t].outer = TRUE]
            /\ UNCHANGED <<log_write_locks, lock_owner>>
       ELSE /\ thr' = [thr EXCEPT ![t] = IdleThread]
            /\ lock_owner' = [lock_owner EXCEPT ![StoreLock] = 0]
            /\ log_write_locks' =
                 IF thr[t].op = "enqueue"
                 THEN [k \in DOMAIN log_write_locks \cup {thr[t].id} |->
                          IF k = thr[t].id THEN FreshLock(k) ELSE log_write_locks[k]]
                 ELSE log_write_locks

\* the thread contexts a write can come from: no job ("") or a job with its
\* log file installed
WriteContexts == {""} \cup DOMAIN log_write_locks

\* RouterStream.write(s) begins: the job's write lock is looked up
WriteBegin(t, stream, j) ==
    /\ thr[t].pc = "idle"
    /\ thr' = [thr EXCEPT ![t] = [IdleThread EXCEPT
                  !.pc = "stream", !.op = "write", !.id = j, !.stream = stream,
                  !.job_lock = IF j = "" THEN NoLock ELSE log_write_locks[j]]]
    /\ UNCHANGED <<log_write_locks, lock_owner>>

\* self._lock.acquire() of the stream lock
AcquireStreamLock(t) ==
    /\ thr[t].pc = "stream"
    /\ Acquire(t, IF thr[t].job_lock # NoLock THEN "job" ELSE "orig")

\* job_lock.acquire(); the bytes then go to the log file
AcquireJobLock(t) ==
    /\ thr[t].pc = "job"
    /\ Acquire(t, "bytes")

\* "with parent._lock:" around the update of _log_bytes, entered
LogBytesEnter(t) ==
    /\ thr[t].pc = "bytes"
    /\ Acquire(t, "in_bytes")

\* left
LogBytesLeave(t) ==
    /\ thr[t].pc = "in_bytes"
    /\ lock_owner' = [lock_owner EXCEPT ![StoreLock] = 0]
    /\ thr' = [thr EXCEPT ![t].pc = "append"]
    /\ UNCHANGED log_write_locks

\* _append_log: "with self._lock:" entered
AppendLogEnter(t) ==
    /\ thr[t].pc = "append"
    /\ Acquire(t, "in_append")

\* left
AppendLogLeave(t) ==
    /\ thr[t].pc = "in_append"
    /\ lock_owner' = [lock_owner EXCEPT ![StoreLock] = 0]
    /\ thr' = [thr EXCEPT ![t].pc = "orig"]
    /\ UNCHANGED log_write_locks

\* self._original.write(s), then the finally blocks release the job's write
\* lock and the stream lock; a write made inside a locked block returns into
\* the block, which then ends
WriteOriginal(t) ==
    /\ thr[t].pc = "orig"
    /\ lock_owner' = [l \in Locks |->
                        IF lock_owner[l] = t /\ (l # StoreLock \/ thr[t].outer)
                        THEN 0 ELSE lock_owner[l]]
    /\ thr' = [thr EXCEPT ![t] = IdleThread]
    /\ UNCHANGED log_write_locks

NextLocks ==
    \/ \E t \in Threads, c \in Calls : CallBegin(t, c) /\ UNCHANGED <<qvars, svars, lvars, avars, gvars>>
    \/ \E t \in Threads : CallEnter(t) /\ UNCHANGED <<qvars, svars, lvars, avars, gvars>>
    \/ \E t \in Threads : CallLeave(t) /\ UNCHANGED <<qvars, svars, lvars, avars, gvars>>
    \/ \E t \in Threads, stream \in Streams, j \in WriteContexts :
          WriteBegin(t, stream, j) /\ UNCHANGED <<qvars, svars, lvars, avars, gvars>>
    \/ \E t \in Threads : AcquireStreamLock(t) /\ UNCHANGED <<qvars, svars, lvars, avars, gvars>>
    \/ \E t \in Threads : AcquireJobLock(t) /\ UNCHANGED <<qvars, svars, lvars, avars, gvars>>
    \/ \E t \in Threads : LogBytesEnter(t) /\ UNCHANGED <<qvars, svars, lvars, avars, gvars>>
    \/ \E t \in Threads : LogBytesLeave(t) /\ UNCHANGED <<qvars, svars, lvars, avars, gvars>>
    \/ \E t \in Threads : AppendLogEnter(t) /\ UNCHANGED <<qvars, svars, lvars, avars, gvars>>
    \/ \E t \in Threads : AppendLogLeave(t) /\ UNCHANGED <<qvars, svars, lvars, avars, gvars>>
    \/ \E t \in Threads : WriteOriginal(t) /\ UNCHANGED <<qvars, svars, lvars, avars, gvars>>

SpecLocks == InitBuffer /\ [][NextLocks]_vars

\* two lanes with one worker each, two jobs whose runners write while they
\* run side by side
InitLanes == Init /\ lanes = <<"image", "bulk">>

NextLanes ==
    \/ Start /\ UNCHANGED <<svars, uvars>>
    \/ \E id_arg \in IdArgs, lane_arg \in LaneArgs : Enqueue(id_arg, lane_arg) /\ UNCHANGED <<svars, uvars>>
    \/ \E w \in WorkerIds : WorkerLoop(w) /\ UNCHANGED <<svars, uvars>>
    \/ \E w \in WorkerIds : WorkerDequeue(w) /\ UNCHANGED <<svars, uvars>>
    \/ \E w \in WorkerIds : WorkerBegin(w) /\ UNCHANGED <<svars, uvars>>
    \/ \E w \in WorkerIds, opened \in BOOLEAN : WorkerInstall(w, opened) /\ UNCHANGED <<svars, uvars>>
    \/ \E w \in WorkerIds : RunnerReturn(w) /\ UNCHANGED <<svars, uvars>>
    \/ \E w \in WorkerIds, s \in Texts : Write(w, s) /\ UNCHANGED <<svars, uvars>>
    \/ \E j \in IdSet, fs \in FileStates : GetLog(j, fs # "gone") /\ UNCHANGED <<svars, uvars>>

SpecLanes == InitLanes /\ [][NextLanes]_vars

\* ---------------------------------------------------- start() and stop()

\* what one worker thread does next
WorkerStep(w) ==
    \/ WorkerLoop(w) /\ UNCHANGED <<svars, uvars>>
    \/ WorkerDequeue(w) /\ UNCHANGED <<svars, uvars>>
    \/ WorkerBegin(w) /\ UNCHANGED <<svars, uvars>>
    \/ \E opened \in BOOLEAN : WorkerInstall(w, opened) /\ UNCHANGED <<svars, uvars>>
    \/ RunnerReturn(w) /\ UNCHANGED <<svars, uvars>>
    \/ RunnerRaise(w) /\ UNCHANGED <<svars, uvars>>

NextLife ==
    \/ Start /\ UNCHANGED <<svars, uvars>>
    \/ Stop /\ UNCHANGED <<svars, uvars>>
    \/ \E id_arg \in IdArgs, lane_arg \in LaneArgs : Enqueue(id_arg, lane_arg) /\ UNCHANGED <<svars, uvars>>
    \/ \E w \in WorkerIds : WorkerStep(w)

SpecLife == Init /\ [][NextLife]_vars

\* every thread name start() can create under the configurations considered
ThreadNames == {"image", "bulk"} \X (0..1)

\* the threads get their turn, queue.get() returns when the queue holds an
\* item, and every runner returns or raises
SpecLifeFair ==
    SpecLife /\ \A w \in ThreadNames : WF_vars(w \in WorkerIds /\ WorkerStep(w))

\* ------------------------------------------------- the queue in service

\* what one worker thread does next when jobs may be cancelled
ServeStep(w) ==
    \/ WorkerStep(w)
    \/ RunnerCheckCancelled(w) /\ UNCHANGED <<svars, uvars>>

\* start(), enqueue() and cancel() callers and the worker threads; stop() is
\* never called
NextServe ==
    \/ Start /\ UNCHANGED <<svars, uvars>>
    \/ \E id_arg \in IdArgs, lane_arg \in LaneArgs : Enqueue(id_arg, lane_arg) /\ UNCHANGED <<svars, uvars>>
    \/ \E j \in IdSet : Cancel(j) /\ UNCHANGED <<svars, uvars>>
    \/ \E w \in WorkerIds : ServeStep(w)

SpecServe == Init /\ [][NextServe]_vars

\* the threads get their turn, queue.get() returns when the queue holds an
\* item, and every runner returns or raises
SpecServeFair ==
    SpecServe /\ \A w \in ThreadNames : WF_vars(w \in WorkerIds /\ ServeStep(w))

\* =====================================================================
\* snapshot
\* =====================================================================

\* the recent_limit arguments considered; 50 is the default
RecentLimits == {0, 1, 2, 50}

\* seq[-n:] for n >= 0: the last n elements, and the whole list for n = 0
\* (Python reads -0 as 0)
NegSlice(seq, n) == IF n = 0 THEN seq ELSE Last(seq, n)

\* [j for j in jobs if j["status"] == status]
WithStatus(js, status) ==
    LET Test(job) == job.status = status
    IN SelectSeq(js, Test)

\* snapshot(recent_limit): the dict it returns
SnapshotDict(recent_limit) ==
    LET ordered == NegSlice(order, recent_limit)
        js == [i \in 1..Len(ordered) |-> jobs[ordered[i]]]
        running_jobs == WithStatus(js, "running")
    IN [running |-> IF running_jobs = << >> THEN None
                    ELSE running_jobs[Len(running_jobs)],
        running_jobs |-> running_jobs,
        queued_count |-> Len(WithStatus(js, "queued")),
        jobs |-> js]

\* snapshot(recent_limit)
QueueSnapshot(recent_limit) ==
    /\ ret' = [op |-> "snapshot", val |-> SnapshotDict(recent_limit)]
    /\ UNCHANGED <<lvars, lanes, lane_workers, jobs, order, cancel_events, evset, log_paths, queues, stop, wk, sub, nenq, nstop>>

NextSnap ==
    \/ Start /\ UNCHANGED <<svars, uvars>>
    \/ \E id_arg \in IdArgs, lane_arg \in LaneArgs : Enqueue(id_arg, lane_arg) /\ UNCHANGED <<svars, uvars>>
    \/ \E w \in WorkerIds : WorkerLoop(w) /\ UNCHANGED <<svars, uvars>>
    \/ \E w \in WorkerIds : WorkerDequeue(w) /\ UNCHANGED <<svars, uvars>>
    \/ \E w \in WorkerIds : WorkerBegin(w) /\ UNCHANGED <<svars, uvars>>
    \/ \E w \in WorkerIds, opened \in BOOLEAN : WorkerInstall(w, opened) /\ UNCHANGED <<svars, uvars>>
    \/ \E w \in WorkerIds : RunnerReturn(w) /\ UNCHANGED <<svars, uvars>>
    \/ \E n \in RecentLimits : QueueSnapshot(n) /\ UNCHANGED <<svars, uvars>>

SpecSnap == Init /\ [][NextSnap]_vars

\* =====================================================================
\* AsyncRateLimiter
\* =====================================================================

\* asyncio.Semaphore.locked(): no slot left, or somebody is already waiting
Locked(sem) == sem.value = 0 \/ sem.waiters # << >>

\* the place of the first waiter whose future is not done, 0 when none
FirstNotDone(waiters) ==
    LET open == {i \in 1..Len(waiters) : ~waiters[i].done}
    IN IF open = {} THEN 0 ELSE CHOOSE i \in open : \A k \in open : i <= k

\* asyncio.Semaphore._wake_up_next(): the first waiter that is not done gets
\* the slot and its future a result
WakeUpNext(sem) ==
    LET i == FirstNotDone(sem.waiters)
    IN IF i = 0 THEN sem
       ELSE [value |-> sem.value - 1,
             waiters |-> [sem.waiters EXCEPT ![i].done = TRUE]]

\* mutant of Release: leaving the block gives nothing back
ReleaseNothing(sem) == sem

\* asyncio.Semaphore.release()
Release(sem) == WakeUpNext([sem EXCEPT !.value = @ + 1])

\* the waiters without the future of coroutine c
Without(waiters, c) ==
    LET Others(w) == w.coro # c IN SelectSeq(waiters, Others)

\* AsyncRateLimiter(max_concurrent=m)
NewLimiter(m) ==
    /\ max_concurrent = 0
    /\ max_concurrent' = m
    /\ semaphore' = [value |-> m, waiters |-> << >>]
    /\ UNCHANGED coro

\* "async with limiter", __aenter__: acquire() takes a slot at once when the
\* semaphore is not locked, else queues a future and suspends
Aenter(c) ==
    /\ max_concurrent > 0
    /\ coro[c] = "new"
    /\ IF ~Locked(semaphore)
       THEN /\ semaphore' = [semaphore EXCEPT !.value = @ - 1]
            /\ coro' = [coro EXCEPT ![c] = "inside"]
       ELSE /\ semaphore' = [semaphore EXCEPT !.waiters = Append(@, [coro |-> c, done |-> FALSE])]
            /\ coro' = [coro EXCEPT ![c] = "waiting"]
    /\ UNCHANGED max_concurrent

\* the event loop resumes a coroutine whose future has a result: acquire()
\* removes the future, passes a spare slot on, and the body starts
AcquireResume(c) ==
    /\ coro[c] = "waiting"
    /\ \E i \in 1..Len(semaphore.waiters) :
          semaphore.waiters[i].coro = c /\ semaphore.waiters[i].done
    /\ LET sem == [semaphore EXCEPT !.waiters = Without(@, c)]
       IN semaphore' = IF sem.value > 0 THEN WakeUpNext(sem) ELSE sem
    /\ coro' = [coro EXCEPT ![c] = "inside"]
    /\ UNCHANGED max_concurrent

\* the body of the block ends, by returning or by raising: __aexit__
\* releases the slot and returns None, so an exception goes on to the caller
Aexit(c, raised) ==
    /\ coro[c] = "inside"
    /\ semaphore' = Release(semaphore)
    /\ coro' = [coro EXCEPT ![c] = IF raised THEN "raised" ELSE "returned"]
    /\ UNCHANGED max_concurrent

NextLimiter ==
    \/ \E m \in 1..MaxConcurrent : NewLimiter(m) /\ UNCHANGED <<qvars, svars, lvars, gvars, kvars>>
    \/ \E c \in 1..MaxCoros : Aenter(c) /\ UNCHANGED <<qvars, svars, lvars, gvars, kvars>>
    \/ \E c \in 1..MaxCoros : AcquireResume(c) /\ UNCHANGED <<qvars, svars, lvars, gvars, kvars>>
    \/ \E c \in 1..MaxCoros, raised \in BOOLEAN : Aexit(c, raised) /\ UNCHANGED <<qvars, svars, lvars, gvars, kvars>>

SpecLimiter == InitHttp /\ [][NextLimiter]_vars

\* the event loop runs every coroutine that is ready, and every body ends
SpecLimiterFair ==
    SpecLimiter /\ \A c \in 1..MaxCoros :
        /\ WF_vars(AcquireResume(c) /\ UNCHANGED <<qvars, svars, lvars, gvars, kvars>>)
        /\ WF_vars(\E raised \in BOOLEAN : Aexit(c, raised) /\ UNCHANGED <<qvars, svars, lvars, gvars, kvars>>)

\* =====================================================================
\* main image selection
\* =====================================================================

\* strings are sequences of characters; ord() of the characters used
Ord(ch) ==
    CASE ch = "." -> 46 [] ch = "/" -> 47 [] ch = "1" -> 49 [] ch = "2" -> 50
      [] ch = "_" -> 95 [] ch = "a" -> 97 [] ch = "b" -> 98 [] ch = "p" -> 112
      [] ch = "u" -> 117 [] ch = "v" -> 118 [] ch = "z" -> 122

\* str.__lt__
RECURSIVE StrLess(_, _)
StrLess(a, b) ==
    IF b = << >> THEN FALSE
    ELSE IF a = << >> THEN TRUE
    ELSE IF Head(a) = Head(b) THEN StrLess(Tail(a), Tail(b))
    ELSE Ord(Head(a)) < Ord(Head(b))

\* str.rfind(ch) + 1: the last place of ch in s, 0 when there is none
RFind(s, ch) ==
    LET at == {i \in 1..Len(s) : s[i] = ch}
    IN IF at = {} THEN 0 ELSE CHOOSE i \in at : \A k \in at : k <= i

\* s.split(ch)[-1]
LastPart(s, ch) == SubSeq(s, RFind(s, ch) + 1, Len(s))

\* _stem_from_name
StemFromName(name) ==
    IF name = << >> THEN << >>
    ELSE LET base == LastPart(name, "/")
             dot == RFind(base, ".") - 1
         IN IF dot > 0 THEN SubSeq(base, 1, dot) ELSE base

\* _is_main_stem
IsMainStem(stem) == stem # << >> /\ LastPart(stem, "_") = <<"1">>

\* item.get("stem") or _stem_from_name(str(item.get("name") or ""))
StemValue(item) == IF item.stem # << >> THEN item.stem ELSE StemFromName(item.name)

\* the sort key, str(s.get("name") or s.get("url") or "")
SortKey(item) == IF item.name # << >> THEN item.name ELSE item.url

\* the names, URLs and "stem" fields an item may hold (empty: not given)
Names == {<< >>, <<"a", "_", "1">>, <<"a", "_", "2">>, <<"a", "1">>,
          <<"b", "/", "a", "_", "1", ".", "p">>}
Urls == {<<"u">>, <<"v", "_", "1">>}
Stems == {<< >>, <<"z", "_", "1">>}

SourceItems == [name : Names, url : Urls, stem : Stems]

\* the source lists of a group: each item is an object of its own, id is its
\* identity
Groups ==
    UNION {{[i \in 1..k |-> [id |-> i, name |-> g[i].name, url |-> g[i].url, stem |-> g[i].stem]] :
               g \in [1..k -> SourceItems]} : k \in 0..MaxItems}

NoItem == [id |-> 0, name |-> << >>, url |-> << >>, stem |-> << >>]

\* sorted(sources, key=...): a stable sort, items with equal keys keep the
\* order they came in
Sorted(s) ==
    LET Before(i, j) ==
            \/ StrLess(SortKey(s[i]), SortKey(s[j]))
            \/ SortKey(s[i]) = SortKey(s[j]) /\ i < j
        Rank(i) == Cardinality({j \in 1..Len(s) : Before(j, i)})
    IN [k \in 1..Len(s) |-> s[CHOOSE i \in 1..Len(s) : Rank(i) = k - 1]]

\* the head: the first item of the sorted list with a main stem, else the
\* first item of the sorted list
HeadOf(s) ==
    LET sources_sorted == Sorted(s)
        mains == {k \in 1..Len(s) : IsMainStem(StemValue(sources_sorted[k]))}
    IN IF mains = {} THEN sources_sorted[1]
       ELSE sources_sorted[CHOOSE k \in mains : \A m \in mains : k <= m]

\* stage 2: the sorted items other than the head ("if item is head")
SecondaryOf(s) ==
    LET NotHead(item) == item.id # HeadOf(s).id
    IN SelectSeq(Sorted(s), NotHead)

\* the permutations of 1..n
Perms(n) == {f \in [1..n -> 1..n] : \A i, j \in 1..n : f[i] = f[j] => i = j}

\* a job is given a group: options["sku_images_map"][sku]
GiveGroup ==
    /\ sources = << >>
    /\ \E g \in Groups \ {<< >>} : sources' = g
    /\ UNCHANGED <<head, secondary, prev_head>>

\* _process_sku_main picks the head of the group
ProcessSkuMain ==
    /\ sources # << >>
    /\ head = NoItem
    /\ head' = HeadOf(sources)
    /\ UNCHANGED <<sources, secondary, prev_head>>

\* stage 2 builds the secondary tasks of the group
CollectSecondary ==
    /\ head # NoItem
    /\ secondary = << >>
    /\ Len(sources) > 1
    /\ secondary' = SecondaryOf(sources)
    /\ UNCHANGED <<sources, head, prev_head>>

\* another job is given the same items in another order
GiveAgain(f) ==
    /\ head # NoItem
    /\ prev_head = NoItem
    /\ sources' = [i \in 1..Len(sources) |-> sources[f[i]]]
    /\ sources' # sources
    /\ prev_head' = head
    /\ head' = NoItem
    /\ secondary' = << >>

NextSelect ==
    \/ GiveGroup /\ UNCHANGED <<qvars, svars, lvars, avars, kvars>>
    \/ ProcessSkuMain /\ UNCHANGED <<qvars, svars, lvars, avars, kvars>>
    \/ CollectSecondary /\ UNCHANGED <<qvars, svars, lvars, avars, kvars>>
    \/ \E f \in Perms(Len(sources)) : GiveAgain(f) /\ UNCHANGED <<qvars, svars, lvars, avars, kvars>>

SpecSelect == InitHttp /\ [][NextSelect]_vars

\* =====================================================================
\* Claims
\* =====================================================================

\* no job id was passed to enqueue twice
IdsUnique == \A a, b \in 1..Len(order) : a # b => order[a] # order[b]

\* the workers holding an item or running it
Busy(w) == wk[w].pc \in {"item", "begin", "exec"}

\* how often the item of enqueue call n sits in queue q
RECURSIVE Occurs(_, _)
Occurs(q, n) ==
    IF q = << >> THEN 0
    ELSE (IF Head(q) # Sentinel /\ Head(q)[2] = n THEN 1 ELSE 0) + Occurs(Tail(q), n)

RECURSIVE SumOver(_, _)
SumOver(S, n) ==
    IF S = {} THEN 0
    ELSE LET l == CHOOSE x \in S : TRUE IN Occurs(queues[l], n) + SumOver(S \ {l}, n)

Queued(n) == SumOver(LaneSet, n)

\* C1: every job record has one of the five statuses, and finished_at is set
\* exactly when the status is success, failed or cancelled.
C1_FinishedIffTerminal ==
    \A j \in DOMAIN jobs :
        /\ jobs[j].status \in Statuses
        /\ (jobs[j].finished_at # 0) <=> (jobs[j].status \in Terminal)

\* C1 holds as long as no job id is enqueued twice.
C1_WhenIdsUnique == IdsUnique => C1_FinishedIffTerminal

AllowedMoves ==
    { <<"queued", "running">>, <<"running", "success">>, <<"running", "failed">>,
      <<"running", "cancelled">>, <<"queued", "cancelled">> }

StatusMovesOk ==
    \A j \in DOMAIN jobs :
        jobs'[j].status # jobs[j].status => <<jobs[j].status, jobs'[j].status>> \in AllowedMoves

\* C2: the status of a job id changes only along queued->running,
\* running->success|failed|cancelled and queued->cancelled, so a terminal
\* status never changes.
C2_OnlyAllowedMoves == [][StatusMovesOk]_vars

\* C2 holds as long as no job id is enqueued twice.
C2_WhenIdsUnique == [][IdsUnique' => StatusMovesOk]_vars

\* C3: a submission that cancel found queued is cancelled with finished_at
\* set, its runner is never called and no worker ever marks it running.
C3_CancelledQueuedNeverRuns ==
    /\ \A n \in 1..nenq :
         sub[n].cancelled_queued =>
            /\ sub[n].invoked = 0
            /\ \A w \in WorkerIds : ~(wk[w].pc \in {"begin", "exec"} /\ wk[w].runner = n)
    /\ (ret.op = "cancel" /\ ret.val = <<TRUE, "ok">> /\ ret.was = "queued") =>
            /\ jobs[ret.id].status = "cancelled"
            /\ jobs[ret.id].finished_at # 0

\* C3 holds as long as no job id is enqueued twice.
C3_WhenIdsUnique == IdsUnique => C3_CancelledQueuedNeverRuns

\* a cancel call that just returned for a job it found in status st
CancelOn(st) ==
    /\ ret'.op = "cancel"
    /\ ret' # ret
    /\ ret'.id \in DOMAIN jobs
    /\ jobs[ret'.id].status = st

\* C4: cancel on a running job sets the job's token and cancel_requested,
\* returns (True, "ok") and leaves the rest of the record alone; a running
\* job turns cancelled only in the step in which its runner raises the
\* cancellation signal, and a runner that returns or raises something else
\* ends the job success or failed whatever was requested.
C4_CancelRunningIsCooperative ==
    [][ /\ CancelOn("running") =>
             /\ ret'.val = <<TRUE, "ok">>
             /\ cancel_events[ret'.id] \in evset'
             /\ jobs' = [jobs EXCEPT ![ret'.id].cancel_requested = TRUE]
        /\ \A j \in DOMAIN jobs :
             (jobs[j].status = "running" /\ jobs'[j].status = "cancelled") =>
                \E w \in WorkerIds : /\ wk[w].pc = "exec" /\ wk[w].job_id = j
                                     /\ IsSet(wk[w].ev) /\ wk'[w].pc = "loop"
        /\ \A w \in WorkerIds :
             /\ RunnerReturn(w) => jobs'[wk[w].job_id].status = "success"
             /\ RunnerRaise(w) => jobs'[wk[w].job_id].status = "failed"
      ]_vars

\* C4 witness: a job cancelled while running whose runner returned anyway.
C4_Witness ==
    /\ ret.op = "cancel" /\ ret.val = <<TRUE, "ok">> /\ ret.was = "running"
    /\ jobs[ret.id].status = "success"
    /\ jobs[ret.id].cancel_requested

\* C5: cancel on a job that is already success, failed or cancelled returns
\* (True, that status) and changes neither the store nor any token.
C5_CancelTerminalIsNoop ==
    [][ \A st \in Terminal :
          CancelOn(st) =>
             /\ ret'.val = <<TRUE, st>>
             /\ jobs' = jobs
             /\ evset' = evset
             /\ cancel_events' = cancel_events
      ]_vars

\* C5 witness: cancel has just answered with a terminal status.
C5_Witness ==
    /\ ret.op = "cancel"
    /\ ret.val[1] = TRUE /\ ret.val[2] \in Terminal
    /\ jobs[ret.id].status = ret.val[2]
    /\ ~jobs[ret.id].cancel_requested

\* C6: the item of an enqueue call is dequeued at most once and its runner
\* called at most once, by one worker; an item that was dequeued is in no
\* queue.
C6_AtMostOnce ==
    \A n \in 1..nenq :
        /\ sub[n].taken <= 1
        /\ sub[n].invoked <= sub[n].taken
        /\ Queued(n) + sub[n].taken = 1
        /\ Cardinality({w \in WorkerIds : Busy(w) /\ wk[w].runner = n}) <= sub[n].taken

\* C6 witness: two submissions of one id, both run, each runner called once.
C6_Witness ==
    /\ nenq = 2
    /\ sub[1].job_id = sub[2].job_id
    /\ sub[1].invoked = 1 /\ sub[2].invoked = 1
    /\ \A w \in WorkerIds : ~Busy(w)

\* C7: a runner that returns ends the job success with its value as result
\* and no error; CancelledError ends it cancelled with the signal's text as
\* error; any other exception ends it failed with str(e) as error; each time
\* finished_at is stamped and the worker is back at the head of its loop.
C7_Step ==
    \A w \in WorkerIds :
        LET j == wk[w].job_id
            r == wk[w].runner
        IN /\ RunnerReturn(w) =>
                /\ jobs'[j].status = "success" /\ jobs'[j].result = <<"res", r>>
                /\ jobs'[j].error = Unset
                /\ jobs'[j].finished_at # 0 /\ wk'[w].pc = "loop"
           /\ RunnerCheckCancelled(w) =>
                /\ jobs'[j].status = "cancelled" /\ jobs'[j].error = <<"Job cancelled">>
                /\ jobs'[j].finished_at # 0 /\ wk'[w].pc = "loop"
           /\ RunnerRaise(w) =>
                /\ jobs'[j].status = "failed" /\ jobs'[j].error = <<"err", r>>
                /\ jobs'[j].finished_at # 0 /\ wk'[w].pc = "loop"

C7_OutcomeMapping == [][C7_Step]_vars

\* C7 holds as long as no job id is enqueued twice.
C7_WhenIdsUnique == [][IdsUnique => C7_Step]_vars

\* the record that submission n of a studio job created has a terminal status
StudioEnded(n) ==
    /\ sub[n].job_id \in DOMAIN jobs
    /\ jobs[sub[n].job_id].obj = n
    /\ jobs[sub[n].job_id].status \in Terminal

\* C8: for a job run by run_image_studio_job, whenever any cooperative check
\* (check_cancelled in the worker code, or the engine's check of the cancel
\* event inside the processing call, in the single-image path or inside a
\* batch stage task) has observed the job's token set, the job's terminal
\* status is cancelled, never failed and never success.
C8_SeenSetEndsCancelled ==
    \A n \in 1..MaxStudioJobs :
        (seen[n] # {} /\ StudioEnded(n)) => jobs[sub[n].job_id].status = "cancelled"

\* the part of C8 the code keeps: a check_cancelled() made in the job's own
\* thread that finds the token set ends the job cancelled
C8_JobThreadChecks ==
    \A n \in 1..MaxStudioJobs :
        (<<"job", "check_cancelled">> \in seen[n] /\ StudioEnded(n))
            => jobs[sub[n].job_id].status = "cancelled"

\* where C8 breaks: the engine's check in the job's own thread found the token
\* set and the job ended failed with the cancellation text as its error
C8_EngineCheckFailed ==
    \E n \in 1..MaxStudioJobs :
        /\ seen[n] = {<<"job", "_check_cancel">>}
        /\ StudioEnded(n)
        /\ jobs[sub[n].job_id].status = "failed"
        /\ jobs[sub[n].job_id].error = CancelledText

\* where C8 breaks: a check inside a stage task found the token set and the
\* job ended success
C8_TaskCheckSuccess ==
    \E n \in 1..MaxStudioJobs :
        /\ seen[n] # {}
        /\ StudioEnded(n)
        /\ jobs[sub[n].job_id].status = "success"

\* what one enqueue call must have done
C9_Step ==
    \A id_arg \in IdSet \cup {None}, lane_arg \in LaneArgs :
        Enqueue(id_arg, lane_arg) =>
            LET n == nenq'
                j == ret'.id
                lane == IF lane_arg \in LaneSet THEN lane_arg ELSE lanes[1]
            IN /\ id_arg # None => j = id_arg
               /\ id_arg = None => j \notin DOMAIN jobs
               /\ jobs'[j].status = "queued"
               /\ jobs'[j].lane = lane
               /\ cancel_events'[j] = n
               /\ n \notin evset'
               /\ \A k \in DOMAIN cancel_events : cancel_events[k] # n
               /\ queues' = [queues EXCEPT ![lane] = Append(@, <<j, n>>)]
               /\ wk' = wk
               /\ sub'[n].invoked = 0

\* a worker only holds or runs items that were put on its own lane
C9_OwnLane == \A w \in WorkerIds : Busy(w) => sub[wk[w].runner].lane = w[1]

\* C9: enqueue stores the job queued with a new, unset token, appends
\* (job_id, runner) to the queue of the named lane if it is configured and of
\* the first lane otherwise, records that lane, returns the id and calls no
\* runner; only workers of that lane ever hold the item.
C9_EnqueueRoutes == [](C9_OwnLane) /\ [][C9_Step]_vars

\* C9 witness: a job put on the second lane is being run by that lane's worker.
C9_Witness ==
    /\ Len(lanes) = 2
    /\ \E w \in WorkerIds :
         /\ w[1] = lanes[2] /\ wk[w].pc = "exec"
         /\ sub[wk[w].runner].lane = lanes[2]
         /\ jobs[wk[w].job_id].lane = lanes[2]

\* the fields of a record fit its status
Coherent(job) ==
    /\ job.status = "queued" => job.started_at = 0 /\ job.result = Unset /\ job.error = Unset
    /\ job.status = "running" => job.started_at # 0 /\ job.result = Unset /\ job.error = Unset
    /\ job.status = "success" => job.finished_at # 0 /\ job.result # Unset
    /\ job.status = "failed" => job.finished_at # 0 /\ job.error # Unset
    /\ job.status = "cancelled" => job.finished_at # 0

\* C10: a record returned by get is the stored record as it stood between
\* two whole transitions, and later transitions do not change it.
C10_GetIsSnapshot ==
    (ret.op = "get" /\ ret.found) =>
        /\ ret.val = ret.at
        /\ Coherent(ret.at)

\* C10 witness: get returned a running record and the job has since ended.
C10_Witness ==
    /\ ret.op = "get" /\ ret.found
    /\ ret.at.status = "running"
    /\ jobs[ret.id].status = "success"
    /\ jobs[ret.id].obj = ret.at.obj

\* the job table, the lane queues, the tokens and the log state stay as they are
StoreUntouched ==
    UNCHANGED <<jobs, order, queues, cancel_events, evset, log_paths, logs,
                log_counts, log_bytes, files, wk, stop>>

\* C11: get, cancel and get_log_chunk on an unknown job id return None,
\* (False, "not found") and None, and leave the job table, the lane queues,
\* every cancellation token and every job's record unchanged.
C11_Step ==
    \A j \in IdSet \ DOMAIN jobs :
        /\ Get(j) => (ret' = [op |-> "get", id |-> j, found |-> FALSE] /\ StoreUntouched)
        /\ Cancel(j) => (ret'.val = <<FALSE, "not found">> /\ StoreUntouched)
        /\ \A f \in FromArgs, t \in TailArgs, fs \in FileStates :
              ChunkOpen(j, f, t, fs) =>
                  (ret' = [op |-> "get_log_chunk", id |-> j, found |-> FALSE]
                   /\ rd' = rd /\ StoreUntouched)

C11_UnknownIdIsNotFound == [][C11_Step]_vars

\* an unknown id was cancelled and reported not found while another job runs
C11_Witness ==
    /\ ret.op = "cancel"
    /\ ret.id \notin DOMAIN jobs
    /\ ret.val = <<FALSE, "not found">>
    /\ \E j \in DOMAIN jobs : jobs[j].status = "running"

\* where the claimed slice starts in a log of T bytes: from_bytes clamped to
\* T when given, else T - tail_bytes (not below 0) when given, else 0
ClaimedStart(f, t, T) ==
    IF f # NoArg THEN (IF f[1] <= T THEN f[1] ELSE T)
    ELSE IF t # NoArg THEN (IF T - t[1] >= 0 THEN T - t[1] ELSE 0)
    ELSE 0

\* the chunk claimed for a log whose bytes are b
ClaimedChunkOk(chunk, b, f, t) ==
    LET start == ClaimedStart(f, t, Len(b))
    IN /\ chunk.from = start
       /\ chunk.to = Len(b)
       /\ chunk.log = Decode(From(b, start))

\* a get_log_chunk call answered from the file: the start offset is the
\* claimed one for the file's size, and the slice returned is the file from
\* that offset on, with 'from' and 'to' its byte offsets
FileChunkStep ==
    /\ \A j \in DOMAIN logs, f \in FromArgs, t \in TailArgs :
          (ChunkOpen(j, f, t, "ok") /\ rd'.pc = "read") =>
              rd'.start = ClaimedStart(f, t, Len(files[j]))
    /\ ChunkRead =>
          LET b == From(files[rd.id], rd.start)
          IN /\ ret'.val.from = rd.start
             /\ ret'.val.to = rd.start + Len(b)
             /\ ret'.val.log = Decode(b)

\* a get_log_chunk call answered from the buffer (or from get_log's read of
\* the file): the chunk is the claimed one for the bytes of that text
BufferChunkStep ==
    \A j \in DOMAIN logs, f \in FromArgs, t \in TailArgs, fs \in FileStates :
        (ChunkOpen(j, f, t, fs) /\ rd'.pc = "idle") =>
            ClaimedChunkOk(ret'.val, Encode(LogText(j, fs = "flaky")), f, t)

\* C12: get_log_chunk of a known job returns the slice starting at from_bytes
\* (clamped to the log's size) when from_bytes is given, else the last
\* tail_bytes bytes, else the whole log, and 'from' and 'to' are the byte
\* offsets of that slice, whether the file or the buffer serves the log.
C12_ChunkIsRequestedSlice == [][FileChunkStep /\ BufferChunkStep]_vars

\* C12, the part the code keeps: a chunk served from the file is the
\* requested slice.
C12_FileChunkIsRequestedSlice == [][FileChunkStep]_vars

\* a chunk was served from the buffer while the job had written text
C12_BufferServed ==
    /\ ret.op = "get_log_chunk"
    /\ ret.found
    /\ ret.val.log_path = << >>
    /\ ret.val.log # << >>
    /\ ret.val.from = 0

\* the text runner n has written so far, t1 + t2 + ... + tn
JobText(n) == Join(written[n])

\* a get_log_chunk call on the job of runner n, answered from the file:
\* from_bytes = 0 starts at 0, tail_bytes = k starts k bytes before the end
\* of what the job wrote, 'total' is the number of bytes the job wrote, and
\* the text returned is what the job wrote from the start offset on
FileChunkIsWritten(n) ==
    LET j == sub[n].job_id
        b == Encode(JobText(n))
    IN /\ \A t \in TailArgs :
             (ChunkOpen(j, Arg(0), t, "ok") /\ rd'.pc = "read") =>
                 (rd'.start = 0 /\ rd'.total = Len(b))
       /\ \A t \in TailArgs \ {NoArg} :
             (ChunkOpen(j, NoArg, t, "ok") /\ rd'.pc = "read") =>
                 (rd'.start = Len(b) - Len(Last(b, t[1])) /\ rd'.total = Len(b))
       /\ (ChunkRead /\ rd.id = j) =>
             (ret'.val.log = Decode(From(b, rd.start)) /\ ret'.val.total = rd.total)

\* the same call answered without the file
BufferChunkIsWritten(n) ==
    LET j == sub[n].job_id
        b == Encode(JobText(n))
    IN /\ \A t \in TailArgs, fs \in FileStates :
             (ChunkOpen(j, Arg(0), t, fs) /\ rd'.pc = "idle") =>
                 (ret'.val.log = JobText(n) /\ ret'.val.total = Len(b))
       /\ \A t \in TailArgs \ {NoArg}, fs \in FileStates :
             (ChunkOpen(j, NoArg, t, fs) /\ rd'.pc = "idle") =>
                 (ret'.val.log = Decode(Last(b, t[1])) /\ ret'.val.total = Len(b))

\* the runners whose job is in the store
Submitted == {n \in 1..MaxEnqueue : sub[n].job_id \in DOMAIN logs}

\* C13: for a job that wrote t1, ..., tn in that order, get_log_chunk with
\* from_bytes = 0 returns t1 + ... + tn, with tail_bytes = k its last k
\* bytes, and 'total' is the number of bytes the job wrote.
C13_ChunkIsWhatWasWritten ==
    [][\A n \in Submitted : FileChunkIsWritten(n) /\ BufferChunkIsWritten(n)]_vars

\* C13 for a chunk served from the log file the worker opened.
C13_FileChunkIsWhatWasWritten == [][\A n \in Submitted : FileChunkIsWritten(n)]_vars

\* a job wrote two texts and a chunk read from its file returned both
C13_TwoWritesRead ==
    /\ Len(written[1]) = 2
    /\ ret.op = "get_log_chunk"
    /\ ret.found
    /\ ret.val.log_path # << >>
    /\ ret.val.from = 0
    /\ ret.val.log = JobText(1)
    /\ ret.val.total = Len(Encode(JobText(1)))

\* workers of different lanes, each running a job
Concurrent(w1, w2) ==
    /\ w1[1] # w2[1]
    /\ wk[w1].pc = "exec"
    /\ wk[w2].pc = "exec"

\* what get_log returns for the job worker w runs holds nothing but the text
\* its own runner wrote, each write in one piece
OwnLog(w) ==
    \A readable \in BOOLEAN :
        LogText(wk[w].job_id, readable) \in {<< >>, JobText(wk[w].runner)}

\* C14: while two jobs run on workers of different lanes, each job's
\* retrieved log contains only the text written under its own context.
C14_NoInterleaving ==
    \A w1, w2 \in WorkerIds : Concurrent(w1, w2) => (OwnLog(w1) /\ OwnLog(w2))

\* C14 holds as long as no job id is enqueued twice.
C14_WhenIdsUnique == IdsUnique => C14_NoInterleaving

\* C14, the write itself: a write under one job's context leaves every
\* other job's file, buffer and byte count as they were.
C14_WriteTouchesOwnJob ==
    [][\A w \in WorkerIds, s \in Texts :
          Write(w, s) =>
              \A k \in DOMAIN logs \ {wk[w].job_id} :
                  /\ logs'[k] = logs[k]
                  /\ log_bytes'[k] = log_bytes[k]
                  /\ (k \in DOMAIN files => files'[k] = files[k])]_vars

\* two jobs with different ids run on different lanes and both have written
C14_BothWrote ==
    \E w1, w2 \in WorkerIds :
        /\ Concurrent(w1, w2)
        /\ wk[w1].job_id # wk[w2].job_id
        /\ wk[w1].log_file /\ wk[w2].log_file
        /\ Len(written[wk[w1].runner]) = 2
        /\ Len(written[wk[w2].runner]) = 2

\* C15: when the log directory or file cannot be set up, the worker still
\* calls the runner and the job's record is left alone; the job then ends as
\* its runner ends: success with the runner's value, cancelled on
\* CancelledError, failed with the runner's own exception text, and a
\* runner that returns never yields a failed job or a new error.
C15_Step ==
    \A w \in WorkerIds :
        LET j == wk[w].job_id
            r == wk[w].runner
        IN /\ WorkerInstall(w, FALSE) =>
                /\ wk'[w].pc = "exec"
                /\ sub'[r].invoked = sub[r].invoked + 1
                /\ jobs' = jobs
           /\ (wk[w].pc = "exec" /\ ~wk[w].log_file) =>
                /\ RunnerReturn(w) =>
                     /\ jobs'[j].status = "success"
                     /\ jobs'[j].result = <<"res", r>>
                     /\ jobs'[j].error = jobs[j].error
                /\ RunnerCheckCancelled(w) =>
                     /\ jobs'[j].status = "cancelled"
                     /\ jobs'[j].error = <<"Job cancelled">>
                /\ RunnerRaise(w) =>
                     /\ jobs'[j].status = "failed"
                     /\ jobs'[j].error = <<"err", r>>

C15_LogFailureNeverFailsJob == [][C15_Step]_vars

\* a job whose log file could not be opened ended success
C15_Witness ==
    \E w \in WorkerIds, j \in DOMAIN jobs :
        /\ IdsUnique
        /\ jobs[j].status = "success"
        /\ jobs[j].log_path = << >>
        /\ j \notin DOMAIN files
        /\ sub[jobs[j].obj].invoked = 1
        /\ wk[w].pc = "loop"

\* C16: when no log file could be opened for a job, what its runner writes
\* is kept in the job's in-memory buffer, and get_log returns that text.
C16_BufferOnlyLogging ==
    \A w \in WorkerIds :
        (wk[w].pc = "exec" /\ ~wk[w].log_file /\ IdsUnique) =>
            /\ Join(logs[wk[w].job_id]) = JobText(wk[w].runner)
            /\ \A readable \in BOOLEAN :
                  LogText(wk[w].job_id, readable) = JobText(wk[w].runner)

\* a runner without a log file has written, and get_log returned nothing
C16_TextLost ==
    \E w \in WorkerIds :
        /\ wk[w].pc = "exec" /\ ~wk[w].log_file
        /\ written[wk[w].runner] # << >>
        /\ logs[wk[w].job_id] = << >>
        /\ ret = [op |-> "get_log", id |-> wk[w].job_id, found |-> TRUE, val |-> << >>]

\* the live worker loops of a lane, and the number the configuration asks for
LiveLoops(l) == {w \in WorkerIds : w[1] = l /\ wk[w].pc # "dead"}
Configured(l) == IF l \in DOMAIN lane_workers THEN lane_workers[l] ELSE 1

\* C17: a start() call made while a worker is alive creates no worker and
\* changes nothing; and as long as stop() was never called, every lane has
\* either no worker loop (start() not called yet) or exactly its configured
\* number of live worker loops, however often start() is called.
C17_Step ==
    /\ (Start /\ \E l \in LaneSet : LiveLoops(l) # {}) =>
          UNCHANGED <<wk, stop, queues, jobs>>
    /\ (Start /\ nstop = 0) =>
          \A l \in LaneSet : Cardinality(LiveLoops(l))' = Configured(l)
    /\ nstop' = 0 =>
          \/ \A l \in LaneSet : LiveLoops(l)' = {}
          \/ \A l \in LaneSet : Cardinality(LiveLoops(l))' = Configured(l)

C17_StartIdempotent == [][C17_Step]_vars

\* after start() every lane has its configured number of live worker loops
\* and one of them runs a job
C17_Witness ==
    /\ nstop = 0
    /\ \A l \in LaneSet : Cardinality(LiveLoops(l)) = Configured(l)
    /\ \E w \in WorkerIds : wk[w].pc = "exec"

\* no worker loop is running
AllExited == \A w \in WorkerIds : wk[w].pc = "dead"

\* the workers of lane l blocked in get(), and the sentinels on its queue
Waiting(l) == {w \in WorkerIds : w[1] = l /\ wk[w].pc = "wait"}
SentinelsOn(l) == {i \in 1..Len(queues[l]) : queues[l][i] = Sentinel}

\* how a worker leaves once the stop flag is set: at the loop test it exits
\* whatever is queued; blocked in get() it is woken by a sentinel, starts no
\* job and goes to the loop test; running a job it goes to the loop test
\* when the runner returns or raises. Every worker blocked in get() has a
\* sentinel on its lane queue.
C18_Step ==
    /\ \A w \in WorkerIds :
          /\ (stop /\ WorkerLoop(w)) =>
                (wk'[w].pc = "dead" /\ sub' = sub /\ jobs' = jobs)
          /\ (stop /\ wk[w].pc = "wait" /\ queues[w[1]] # << >>
                   /\ Head(queues[w[1]]) = Sentinel /\ WorkerDequeue(w)) =>
                (wk'[w].pc = "loop" /\ sub' = sub /\ jobs' = jobs)
          /\ (stop /\ (RunnerReturn(w) \/ RunnerRaise(w))) => wk'[w].pc = "loop"
    /\ stop' => \A l \in LaneSet :
                   Cardinality(Waiting(l))' <= Cardinality(SentinelsOn(l))'

SameLane(a, b) ==
    /\ a < b
    /\ sub[a].job_id # None /\ sub[b].job_id # None
    /\ sub[a].lane = sub[b].lane

\* the item of b is not taken off the lane queue before the item of a
DequeuedInOrder(a, b) == sub[b].taken >= 1 => sub[a].taken >= 1

\* a lane with one worker, and two different jobs on it
OneWorker(a, b) ==
    /\ WorkerCount(sub[a].lane) = 1
    /\ sub[a].job_id # sub[b].job_id

\* C19 as stated: within one lane A is dequeued before B, and with a single
\* worker in the lane A leaves status queued before B does.
C19_FifoAndQueuedOrder ==
    \A a, b \in 1..MaxEnqueue :
        SameLane(a, b) =>
            /\ DequeuedInOrder(a, b)
            /\ OneWorker(a, b) =>
                  (jobs[sub[b].job_id].status # "queued"
                      => jobs[sub[a].job_id].status # "queued")

\* C19, amended: within one lane A is dequeued before B, and with a single
\* worker in the lane the worker is done with A's item (it skipped it, or
\* A's runner returned or raised) before B's item is dequeued.
C19_FifoAndStartOrder ==
    \A a, b \in 1..MaxEnqueue :
        SameLane(a, b) =>
            /\ DequeuedInOrder(a, b)
            /\ (WorkerCount(sub[a].lane) = 1 /\ sub[b].taken >= 1) =>
                  \A w \in WorkerIds : ~(Busy(w) /\ wk[w].runner = a)

\* two different jobs went through a lane with one worker, the second is
\* running after the first ended
C19_Witness ==
    /\ SameLane(1, 2) /\ OneWorker(1, 2)
    /\ sub[1].taken = 1 /\ sub[2].taken = 1
    /\ jobs[sub[1].job_id].status = "success"
    /\ jobs[sub[2].job_id].status = "running"

\* C20: in every reachable state a job's started_at is set exactly when its
\* status is not queued.
C20_StartedIffLeftQueued ==
    \A j \in DOMAIN jobs : (jobs[j].started_at # 0) <=> (jobs[j].status # "queued")

\* C20 for the jobs a worker took, as long as no job id is enqueued twice:
\* started_at is set only on a job that left queued, and it is set on every
\* running, success or failed job.
C20_StartedWhenRun ==
    IdsUnique =>
        \A j \in DOMAIN jobs :
            /\ jobs[j].started_at # 0 => jobs[j].status # "queued"
            /\ jobs[j].status \in {"running", "success", "failed"} => jobs[j].started_at # 0

\* a job was cancelled while queued and its started_at is not set
C20_CancelledNeverStarted ==
    \E j \in DOMAIN jobs :
        /\ IdsUnique
        /\ jobs[j].status = "cancelled"
        /\ jobs[j].finished_at # 0
        /\ jobs[j].started_at = 0
        /\ ret.op = "cancel" /\ ret.id = j /\ ret.val = <<TRUE, "ok">>

\* C21: in every reachable state a job's result and error are never both
\* set, both are unset while the status is queued or running, result is set
\* only in status success and error only in status failed or cancelled.
C21_ResultErrorExclusive ==
    \A j \in DOMAIN jobs :
        /\ ~(jobs[j].result # Unset /\ jobs[j].error # Unset)
        /\ jobs[j].status \in {"queued", "running"} =>
              (jobs[j].result = Unset /\ jobs[j].error = Unset)
        /\ jobs[j].result # Unset => jobs[j].status = "success"
        /\ jobs[j].error # Unset => jobs[j].status \in {"failed", "cancelled"}

\* C21 holds as long as no job id is enqueued twice.
C21_WhenIdsUnique == IdsUnique => C21_ResultErrorExclusive

\* a job ended failed with its error set and no result, ids being unique
C21_FailedHasErrorOnly ==
    \E j \in DOMAIN jobs :
        /\ IdsUnique
        /\ jobs[j].status = "failed"
        /\ jobs[j].error # Unset
        /\ jobs[j].result = Unset

\* the ids in the store, each once, in the order of their last enqueue
RECURSIVE LastEnqueues(_)
LastEnqueues(seq) ==
    IF seq = << >> THEN << >>
    ELSE IF \E i \in 2..Len(seq) : seq[i] = Head(seq)
    THEN LastEnqueues(Tail(seq))
    ELSE <<Head(seq)>> \o LastEnqueues(Tail(seq))

\* the n most recently enqueued jobs in enqueue order, all if there are fewer
RecentJobs(n) ==
    LET ids == Last(LastEnqueues(order), n)
    IN [i \in 1..Len(ids) |-> jobs[ids[i]]]

\* C22: snapshot(recent_limit=N), N >= 1, returns the N most recently
\* enqueued jobs (all if fewer) in enqueue order, reports a running job
\* whenever some job in the store is running, and reports as queued_count
\* the number of jobs in status queued.
C22_Step ==
    \A n \in RecentLimits \ {0} :
        QueueSnapshot(n) =>
            /\ ret'.val.jobs = RecentJobs(n)
            /\ (\E j \in DOMAIN jobs : jobs[j].status = "running") =>
                  (ret'.val.running_jobs # << >> /\ ret'.val.running.status = "running")
            /\ ret'.val.queued_count =
                  Cardinality({j \in DOMAIN jobs : jobs[j].status = "queued"})

C22_SnapshotReports == [][C22_Step]_vars

\* C22 holds when no id was enqueued twice and the store has no more than
\* N jobs.
C22_WhenAllInWindow ==
    [][\A n \in RecentLimits \ {0} :
          (IdsUnique /\ Len(order) <= n /\ QueueSnapshot(n)) =>
              /\ ret'.val.jobs = RecentJobs(n)
              /\ (\E j \in DOMAIN jobs : jobs[j].status = "running") =>
                    (ret'.val.running_jobs # << >> /\ ret'.val.running.status = "running")
              /\ ret'.val.queued_count =
                    Cardinality({j \in DOMAIN jobs : jobs[j].status = "queued"})]_vars

\* a snapshot of one job reported no running job and no queued job while an
\* older job was running or queued
C22_OlderJobMissed ==
    /\ IdsUnique
    /\ ret.op = "snapshot"
    /\ Len(ret.val.jobs) = 1
    /\ Len(order) = 2
    /\ ret.val.jobs[1] = jobs[order[2]]
    /\ jobs[order[1]].status = "running"
    /\ ret.val.running_jobs = << >>

\* the futures of runner n submitted to the pool of a stage
StageTasks(n, stage) == {t \in 1..Len(tasks[n]) : tasks[n][t].stage = stage}

\* stage 1 of runner n ended with the cancellation signal: a check of the
\* submit or drain loop raised, or the signal has left the runner
MainRaised(n) ==
    /\ run[n].stage = 1
    /\ \/ run[n].pc = "shutdown"
       \/ run[n].pc \in {"ended", "over"} /\ run[n].kind = "cancelled"

\* C23: no stage-2 task is submitted until every stage-1 task has finished
\* or been cancelled, and none at all when stage 1 ended by raising the
\* cancellation signal.
C23_StageBarrier ==
    \A n \in 1..MaxStudioJobs :
        /\ StageTasks(n, 2) # {} =>
              \A t \in StageTasks(n, 1) : tasks[n][t].pc \in {"done", "cancelled"}
        /\ MainRaised(n) => StageTasks(n, 2) = {}

\* a stage-2 task was submitted after two stage-1 tasks had finished
C23_Witness ==
    \E n \in 1..MaxStudioJobs :
        /\ StageTasks(n, 2) # {}
        /\ Cardinality(StageTasks(n, 1)) = 2
        /\ \A t \in StageTasks(n, 1) : tasks[n][t].pc = "done"

\* the stage-1 outcome of SKU i in runner n is a success
MainOk(n, i) ==
    \E t \in StageTasks(n, 1) :
        tasks[n][t].sku = i /\ tasks[n][t].pc = "done" /\ tasks[n][t].ok

\* C24: in the batch modes that run the main stage, every stage-2 task
\* belongs to a group whose stage-1 outcome was a success; a group whose
\* stage 1 failed contributes none.
C24_FailedGroupHasNoSecondary ==
    \A n \in 1..MaxStudioJobs :
        DoMain(payload[n]) =>
            \A t \in StageTasks(n, 2) : MainOk(n, tasks[n][t].sku)

\* one group's stage 1 failed, the other's succeeded, and only the second
\* has a stage-2 task
C24_Witness ==
    \E n \in 1..MaxStudioJobs :
        /\ DoMain(payload[n])
        /\ payload[n].skus = <<2, 2>>
        /\ \E t \in StageTasks(n, 1) :
              tasks[n][t].sku = 1 /\ tasks[n][t].pc = "done" /\ ~tasks[n][t].ok
        /\ {tasks[n][t].sku : t \in StageTasks(n, 2)} = {2}
        /\ run[n].pc = "over"

\* the request kept within 1..60 after a missing or non-positive one fell
\* back to the configured default
Least(a, b) == IF b < a THEN b ELSE a

Clamped(requested) ==
    LET a == IF requested <= 0 THEN 30 ELSE requested
    IN IF a < 1 THEN 1 ELSE IF a > 60 THEN 60 ELSE a

\* the number of secondary tasks of runner n: those still to submit and
\* those submitted
SecondaryCount(n) ==
    (IF run[n].stage = 2 THEN Len(run[n].todo) ELSE 0) + Cardinality(StageTasks(n, 2))

\* C26: the stage-1 pool has min(clamp(requested, 1, 60), number of groups)
\* threads and the stage-2 pool min(clamp(requested, 1, 60), number of
\* secondary tasks), and never more tasks of a stage execute at once than
\* its pool has threads.
C26_PoolSize ==
    \A n \in 1..MaxStudioJobs :
        LET want == Clamped(payload[n].max_workers)
        IN /\ run[n].stage = 1 =>
                /\ run[n].pool = Least(want, Len(payload[n].skus))
                /\ Cardinality(Running(n) \cap StageTasks(n, 1)) <= Least(want, Len(payload[n].skus))
           /\ run[n].stage = 2 =>
                /\ run[n].pool = Least(want, SecondaryCount(n))
                /\ Cardinality(Running(n) \cap StageTasks(n, 2)) <= Least(want, SecondaryCount(n))
                /\ Running(n) \cap StageTasks(n, 1) = {}

\* two groups and max_workers = 1: one stage-1 task executes, the other waits
C26_Witness ==
    \E n \in 1..MaxStudioJobs :
        /\ payload[n].max_workers = 1
        /\ Len(payload[n].skus) = 2
        /\ run[n].stage = 1 /\ run[n].pool = 1
        /\ \E t, u \in StageTasks(n, 1) :
              tasks[n][t].pc \in FramePcs /\ tasks[n][u].pc = "pending"

\* the stage tasks of runner n that returned an ok outcome
OkTasks(n, stage) == {t \in StageTasks(n, stage) : tasks[n][t].pc = "done" /\ tasks[n][t].ok}

\* the stage tasks of runner n whose outcome is a failure
FailedTasks(n) == {t \in 1..Len(tasks[n]) : tasks[n][t].pc = "done" /\ ~tasks[n][t].ok}

\* worker w records the end of a batch job whose cancel event was never set
BatchEnds(w) ==
    /\ wk[w].pc = "exec"
    /\ payload[wk[w].runner].mode \in BatchModes
    /\ run[wk[w].runner].pc = "ended"
    /\ run'[wk[w].runner].pc = "over"
    /\ ~IsSet(wk[w].ev)

C27_Step ==
    \A w \in WorkerIds :
        BatchEnds(w) =>
            LET n == wk[w].runner
                job == jobs'[wk[w].job_id]
            IN /\ job.status = "success"
               /\ job.error = Unset
               /\ job.result = <<"items", Cardinality(OkTasks(n, 1)) + Cardinality(OkTasks(n, 2))>>
               /\ \A t \in 1..Len(tasks[n]) : tasks[n][t].pc = "done"

\* C27: a batch job that is not cancelled ends success whatever its stage-1
\* and stage-2 tasks returned, and its result holds one item per successful
\* stage-1 outcome and one per successful stage-2 outcome, none for a failed
\* one; the stage-1 items are in the result before stage 2 adds its own
C27_PartialFailure ==
    /\ [][C27_Step]_vars
    /\ [](\A n \in 1..MaxStudioJobs :
            (run[n].stage = 2 /\ StageTasks(n, 2) = {}) =>
                run[n].items = Cardinality(OkTasks(n, 1)))

\* a batch job with a successful and a failed stage-1 task and a failed
\* stage-2 task has ended success with the one successful outcome as result
C27_Witness ==
    \E n \in 1..MaxStudioJobs :
        /\ payload[n].mode = "batch_series_generate"
        /\ run[n].pc = "over"
        /\ ~IsSet(run[n].ev)
        /\ \E t \in FailedTasks(n) : tasks[n][t].stage = 1
        /\ \E t \in FailedTasks(n) : tasks[n][t].stage = 2
        /\ Cardinality(OkTasks(n, 1)) = 1
        /\ \E j \in DOMAIN jobs : jobs[j].status = "success" /\ jobs[j].result = <<"items", 1>>

\* runner n is an image_regenerate job whose options hold no source_url
Unsourced(n) == payload[n].mode = "image_regenerate" /\ ~payload[n].source_url

\* worker w records the end of such a job whose cancel event was not set
UnsourcedEnds(w) ==
    /\ wk[w].pc = "exec"
    /\ Unsourced(wk[w].runner)
    /\ run[wk[w].runner].pc = "ended"
    /\ run'[wk[w].runner].pc = "over"
    /\ ~IsSet(wk[w].ev)

C28_Step ==
    \A w \in WorkerIds :
        UnsourcedEnds(w) =>
            LET job == jobs'[wk[w].job_id]
            IN /\ job.status = "failed"
               /\ job.error = <<"source_url required">>
               /\ job.result = Unset

EmptyGroups(n) == {i \in 1..Len(payload[n].skus) : payload[n].skus[i] = 0}

\* SKU i of runner n has a failure outcome
HasFailureOutcome(n, i) ==
    \E t \in 1..Len(tasks[n]) :
        tasks[n][t].sku = i /\ tasks[n][t].pc = "done" /\ ~tasks[n][t].ok

\* C30: when a batch job of any mode has returned, every group with an empty
\* source list has a failure outcome
C30_EmptyGroupHasOutcome ==
    \A n \in 1..MaxStudioJobs :
        (payload[n].mode \in BatchModes /\ run[n].kind = "return") =>
            \A i \in EmptyGroups(n) : HasFailureOutcome(n, i)

\* a batch_secondary_generate job with an empty group has returned and no
\* task, hence no outcome, was ever made for the group
C30_SilentSkip ==
    \E n \in 1..MaxStudioJobs :
        /\ payload[n].mode = "batch_secondary_generate"
        /\ run[n].pc = "over"
        /\ run[n].kind = "return"
        /\ ~IsSet(run[n].ev)
        /\ \E i \in EmptyGroups(n) : \A t \in 1..Len(tasks[n]) : tasks[n][t].sku # i
        /\ \E t \in 1..Len(tasks[n]) : tasks[n][t].ok

\* the coroutines inside the "async with" block
Inside == {c \in 1..MaxCoros : coro[c] = "inside"}

\* the coroutines that were given a slot and have not resumed yet
Granted == {c \in 1..MaxCoros :
               \E i \in 1..Len(semaphore.waiters) :
                   semaphore.waiters[i].coro = c /\ semaphore.waiters[i].done}

\* C29: at most max_concurrent coroutines are inside the block of one
\* AsyncRateLimiter, every slot is either free or held by a coroutine inside
\* or about to enter (so a body that raised gave its slot back), every
\* coroutine that waits for a slot gets inside, and every coroutine inside
\* finishes
C29_RateLimiter ==
    /\ [](max_concurrent > 0 =>
            /\ Cardinality(Inside) <= max_concurrent
            /\ semaphore.value + Cardinality(Inside) + Cardinality(Granted) = max_concurrent)
    /\ \A c \in 1..MaxCoros : (coro[c] = "waiting") ~> (coro[c] = "inside")
    /\ \A c \in 1..MaxCoros : (coro[c] = "inside") ~> (coro[c] \in {"returned", "raised"})

\* a coroutine has had to wait, a holder's body raised, and the one that
\* waited is inside with the limiter full again
C29_Witness ==
    /\ max_concurrent = 2
    /\ Cardinality(Inside) = 2
    /\ semaphore.value = 0
    /\ \E c \in 1..MaxCoros : coro[c] = "raised"
    /\ \E c \in 1..MaxCoros : coro[c] = "waiting"
    /\ \E c \in Inside :
          \E d \in 1..MaxCoros : coro[d] = "raised" /\ c # d

\* two items an observer cannot tell apart
SameItem(a, b) == a.name = b.name /\ a.url = b.url /\ a.stem = b.stem

\* item x is what the claim describes for the list s: an item with a main
\* stem that no other such item precedes by name or URL, or, when no item
\* has a main stem, an item that no other item precedes
IsClaimedMain(x, s) ==
    LET mains == {i \in 1..Len(s) : IsMainStem(StemValue(s[i]))}
        among == IF mains = {} THEN 1..Len(s) ELSE mains
    IN \E i \in among :
          /\ s[i] = x
          /\ \A j \in among : ~StrLess(SortKey(s[j]), SortKey(s[i]))

\* stage 2 made tasks for every item but the head, each once
ExcludesHead ==
    secondary # << >> =>
        /\ {secondary[k].id : k \in 1..Len(secondary)} = {sources[i].id : i \in 1..Len(sources)} \ {head.id}
        /\ Len(secondary) = Len(sources) - 1

\* C25: whatever the order of a group's items, stage 1 selects the same
\* item, the one with a main stem or else the first by name or URL, and
\* stage 2 leaves out exactly that item
C25_SameMainForAnyOrder ==
    /\ head # NoItem => IsClaimedMain(head, sources)
    /\ (head # NoItem /\ prev_head # NoItem) => SameItem(head, prev_head)
    /\ ExcludesHead

\* the items of the group have pairwise different sort keys
KeysDiffer ==
    \A i, j \in 1..Len(sources) : SortKey(sources[i]) = SortKey(sources[j]) => i = j

\* the same statement for the groups whose items differ in name or URL
C25_WhenKeysDiffer == KeysDiffer => C25_SameMainForAnyOrder

\* two items share their name and differ in URL; given in the other order,
\* stage 1 selected the other one
C25_OrderDecides ==
    /\ head # NoItem
    /\ prev_head # NoItem
    /\ head.name = prev_head.name
    /\ head.url # prev_head.url
    /\ secondary # << >>

\* this step is an enqueue call that names job id j
EnqueueOf(j) == nenq' = nenq + 1 /\ order' = Append(order, j)

C34_Step ==
    \A j \in DOMAIN jobs :
        EnqueueOf(j) =>
            /\ jobs'[j].status = jobs[j].status
            /\ jobs'[j].created_at = jobs[j].created_at
            /\ jobs'[j].started_at = jobs[j].started_at
            /\ jobs'[j].finished_at = jobs[j].finished_at
            /\ jobs'[j].result = jobs[j].result
            /\ jobs'[j].error = jobs[j].error
            /\ cancel_events'[j] = cancel_events[j]

\* C34: an enqueue call that names a job id already in the store leaves the
\* status, the timestamps, the result, the error and the cancellation token
\* of the earlier submission with that id as they were
C34_ReuseKeepsEarlierJob == [][C34_Step]_vars

\* a worker runs the first submission of an id, an enqueue call named the id
\* again, and the cancel issued for the id set the token of the second
\* submission only: the running runner's token is not set
C34_CancelMissesRunner ==
    \E w \in WorkerIds :
        /\ wk[w].pc = "exec"
        /\ wk[w].job_id \in DOMAIN jobs
        /\ jobs[wk[w].job_id].cancel_requested
        /\ cancel_events[wk[w].job_id] # wk[w].ev
        /\ IsSet(cancel_events[wk[w].job_id])
        /\ ~IsSet(wk[w].ev)

\* start() has created the worker threads and none has exited
Serving == \A w \in WorkerIds : wk[w].pc # "dead"

\* C35: with the workers started and stop() never called, the record of
\* every enqueued job reaches a terminal status, whatever lane name it was
\* enqueued with and whatever became of the jobs before it
C35_EveryJobEnds ==
    \A j \in IdSet :
        (Serving /\ j \in DOMAIN jobs) ~> (j \in DOMAIN jobs /\ jobs[j].status \in Terminal)

\* two jobs went through the same lane: the first failed, the second, behind
\* it, ended too
C35_Witness ==
    /\ Serving
    /\ Len(order) = 2
    /\ order[1] # order[2]
    /\ sub[1].lane = sub[2].lane
    /\ jobs[order[1]].status = "failed"
    /\ jobs[order[2]].status \in Terminal
    /\ sub[2].invoked = 1

\* a start() call made in this state returns with the stop flag set or with
\* a worker thread that has exited
StartLeavesStopped ==
    ENABLED (Start /\ (stop' \/ \E w \in WorkerIds : wk'[w].pc = "dead"))

\* C36: once stop() has been called, every start() call returns with the
\* stop flag clear and with every configured worker loop alive
C36_StartServesAgain == nstop > 0 => ~StartLeavesStopped

\* stop() was called while a worker runs a job: the worker is alive, so a
\* start() call returns at once and the flag stays set; the worker will exit
\* after the job and the queue has no worker left
C36_StartDoesNothing ==
    /\ nstop > 0
    /\ stop
    /\ \E w \in WorkerIds : wk[w].pc = "exec"
    /\ \E l \in LaneSet : \E i \in 1..Len(queues[l]) : queues[l][i] # Sentinel
    /\ StartLeavesStopped

\* the stage tasks of runner n that a pool thread is executing or may still
\* take
Live(n) == {t \in 1..Len(tasks[n]) : tasks[n][t].pc \in FramePcs \cup {"pending"}}

\* C37: when run_image_studio_job of a batch job has ended, by returning or
\* by the cancellation signal, no stage task of the job is executing or still
\* to be executed; so none is when the worker records the terminal status
C37_TasksOverBeforeEnd ==
    \A n \in 1..MaxStudioJobs : run[n].pc \in {"ended", "over"} => Live(n) = {}

\* a job cancelled in the middle of a stage has its status recorded: a task
\* that had begun went on to its end and a task that had not was cancelled
C37_Witness ==
    \E n \in 1..MaxStudioJobs :
        /\ run[n].pc = "over"
        /\ run[n].kind = "cancelled"
        /\ <<"task", "_check_cancel">> \in seen[n]
        /\ \E t \in 1..Len(tasks[n]) : tasks[n][t].pc = "cancelled"
        /\ \E j \in DOMAIN jobs : jobs[j].status = "cancelled" /\ jobs[j].finished_at # 0

\* the job thread of runner n takes a step of its drain loop with tasks
\* pending
DrainStep(n) == run[n].pc = "drain" /\ run[n].pending # {} /\ run'[n] # run[n]

\* the cancellation signal is on its way out of runner n
Raising(n) == run[n].pc = "shutdown" \/ (run[n].pc \in {"ended", "over"} /\ run[n].kind = "cancelled")

C32_Step ==
    \A n \in 1..MaxStudioJobs :
        /\ (DrainStep(n) /\ IsSet(run[n].ev)) =>
              /\ run'[n].pc = "shutdown"
              /\ \A t \in 1..Len(tasks[n]) :
                    tasks[n][t].pc = "pending" => tasks'[n][t].pc = "cancelled"
        /\ (DrainStep(n) /\ ~IsSet(run[n].ev)) => run'[n].pc = "wait"
        /\ (run[n].pc = "wait" /\ run'[n] # run[n]) => run'[n].pc = "drain"
        /\ Raising(n) => Len(tasks'[n]) = Len(tasks[n]) /\ Raising(n)'
        /\ \A t \in 1..Len(tasks[n]) :
              tasks[n][t].pc = "cancelled" => tasks'[n][t].pc = "cancelled"

\* C32: every iteration of a stage's drain loop looks at the job's token
\* before it waits; when the token is set the loop raises the cancellation
\* signal and cancels the tasks no pool thread has taken, a cancelled task
\* never executes, and once the signal is raised no task is submitted again
C32_DrainRechecks == [][C32_Step]_vars

\* the drain loop of stage 1 found the token set after a first wait: a task
\* of the stage had finished, another was cancelled before it started, and
\* there is no stage-2 task
C32_Witness ==
    \E n \in 1..MaxStudioJobs :
        /\ run[n].pc = "shutdown"
        /\ run[n].stage = 1
        /\ payload[n].mode = "batch_series_generate"
        /\ \E t \in 1..Len(tasks[n]) : tasks[n][t].pc = "done" /\ tasks[n][t].ok
        /\ \E t \in 1..Len(tasks[n]) : tasks[n][t].pc = "cancelled"
        /\ \A t \in 1..Len(tasks[n]) : tasks[n][t].stage = 1

\* the context of the worker thread that runs runner n
JobContext(n) ==
    LET w == CHOOSE v \in WorkerIds : wk[v].pc = "exec" /\ wk[v].runner = n
    IN [job_id |-> wk[w].job_id, cancel_event |-> wk[w].ev, log_file |-> wk[w].log_file]

\* C31: while a stage task executes, the pool thread's context holds the job
\* id, the cancellation token and the log file of the job that submitted it,
\* whose worker is still running that job; before the task starts and after
\* it has returned or raised the thread's context is the empty one it had
C31_TaskRunsInJobContext ==
    \A n \in 1..MaxStudioJobs : \A t \in 1..Len(tasks[n]) :
        IF tasks[n][t].pc \in FramePcs
        THEN /\ \E w \in WorkerIds : wk[w].pc = "exec" /\ wk[w].runner = n
             /\ tasks[n][t].tls = JobContext(n)
             /\ tasks[n][t].tls.cancel_event # 0
             /\ tasks[n][t].tls.job_id = sub[n].job_id
        ELSE tasks[n][t].tls = [job_id |-> None, cancel_event |-> 0, log_file |-> FALSE]

\* a task executes with the job's open log file and token as its context
\* while another task of the job has ended and left its thread's context
\* empty
C31_Witness ==
    \E n \in 1..MaxStudioJobs : \E t, u \in 1..Len(tasks[n]) :
        /\ tasks[n][t].pc = "request"
        /\ tasks[n][t].tls.log_file
        /\ tasks[n][t].tls.job_id = sub[n].job_id
        /\ IsSet(tasks[n][t].tls.cancel_event)
        /\ tasks[n][u].pc = "done"
        /\ tasks[n][u].tls.job_id = None

\* the last public call was a get_log_chunk that returned a chunk
ChunkReturned == ret.op = "get_log_chunk" /\ ret.found

\* C38: every chunk get_log_chunk returns has 0 <= from <= to <= total
C38_ChunkBounds ==
    ChunkReturned =>
        /\ 0 <= ret.val.from
        /\ ret.val.from <= ret.val.to
        /\ ret.val.to <= ret.val.total

\* the job wrote to its log file between the call's stat() and its read():
\* the chunk ends beyond the total it reports
C38_ToBeyondTotal ==
    /\ ChunkReturned
    /\ ret.val.log_path # << >>
    /\ ret.val.to > ret.val.total
    /\ ret.val.to = Len(files[ret.id])

\* total length of the chunks of a buffer
RECURSIVE TotalLen(_)
TotalLen(dq) == IF dq = << >> THEN 0 ELSE Len(Head(dq)) + TotalLen(Tail(dq))

\* total length of the texts a sequence of stamps stands for
RECURSIVE StampedLen(_)
StampedLen(w) == IF w = << >> THEN 0 ELSE Head(w)[2] + StampedLen(Tail(w))

\* the last k of the texts appended
LastChunks(w, k) == SubSeq(w, Len(w) - k + 1, Len(w))

\* the buffer of job j against everything appended under its latest submission
BufferKept(j) ==
    LET w == written[LatestSub(j)]
        k == Len(logs[j])
    IN /\ log_counts[j] = TotalLen(logs[j])
       /\ log_counts[j] <= LogLimit
       /\ k <= Len(w)
       /\ [i \in 1..k |-> Stamp(logs[j][i])] = LastChunks(w, k)
       /\ k < Len(w) => StampedLen(LastChunks(w, k + 1)) > LogLimit

\* C33: after every append the recorded count is the total length of the
\* buffered chunks and is at most the limit; chunks leave oldest-first and
\* only while the count is over the limit, so the buffer is the longest
\* suffix of what was written that fits
C33_BufferWithinLimit == \A j \in DOMAIN logs : BufferKept(j)

\* one-character texts and a text longer than the limit were appended: the
\* long text took the limit over, the chunks left oldest-first, the long one
\* last, and the text appended after it is what the buffer holds
C33_Witness ==
    \E j \in DOMAIN logs :
        LET w == written[LatestSub(j)]
        IN /\ Len(w) = 3
           /\ w[1][2] = 1 /\ w[2][2] > LogLimit /\ w[3][2] = 1
           /\ logs[j] = <<Chunk(w[3][1], 1)>>
           /\ log_counts[j] = 1

\* the locks thread t holds
Held(t) == {l \in Locks : lock_owner[l] = t}

\* stream locks come first, then a job's write lock, then the store lock
Rank(l) == CASE l[1] = "stream" -> 1 [] l[1] = "job" -> 2 [] l[1] = "store" -> 3

InCall == {t \in Threads : thr[t].pc # "idle"}
Blocked(t) == Wants(t) # NoLock /\ lock_owner[Wants(t)] # 0

\* C39: no interleaving of writes and queue calls deadlocks: a thread only
\* ever waits for a lock that ranks after every lock it holds (stream lock,
\* then the job's write lock, then the store lock), and whenever threads are
\* inside a call or a write one of them can take its next step
C39_NoDeadlock ==
    /\ \A t \in Threads :
          Wants(t) # NoLock => \A h \in Held(t) : Rank(h) < Rank(Wants(t))
    /\ InCall # {} => \E t \in InCall : ~Blocked(t)

\* a write holds its stream lock and its job's write lock and waits for the
\* store lock that a get_log call holds, while another write waits for the
\* stream lock
C39_Witness ==
    \E t1, t2, t3 \in Threads :
        /\ thr[t1].pc \in {"bytes", "append"}
        /\ Held(t1) = {StreamLock(thr[t1].stream), thr[t1].job_lock}
        /\ thr[t2].pc = "locked" /\ thr[t2].op = "get_log"
        /\ thr[t3].pc = "stream" /\ thr[t3].stream = thr[t1].stream

====
